---- MODULE Spec2Model ----
(***************************************************************************)
(* Verification model of the layered cell system (layered.cpp) and of the  *)
(* integration driver (integrate.cpp, minimize_energy.cpp).                *)
(*                                                                         *)
(* Lengths are integers on a grid; a layer is layer_h = 2 grid units thick, so  *)
(* odd grid points lie inside a layer and even ones on a layer boundary.   *)
(***************************************************************************)
EXTENDS Integers, Sequences, FiniteSets, TLC

(* ------------------------------ bounds --------------------------------- *)
MaxNodes == 3
MaxGhostNodes == 5
MaxLayers == 2
NumParts == 2
Margin == 1
MaxLen == 4
MaxCells == 5
MaxSteps == 3
MaxFreq == 2
MaxCut == 3
MaxCalls == 2

(* thickness of a layer, in grid units *)
layer_h == 2

(* ------------------------- program constants --------------------------- *)
LAYERED_BOTTOM == 1
LAYERED_TOP == 2
LAYERED_PERIODIC == 4
LAYERED_BTM_MASK == {LAYERED_BOTTOM, LAYERED_PERIODIC}
LAYERED_TOP_MASK == {LAYERED_TOP, LAYERED_PERIODIC}

NoCell == -1

(* ===================== layered.cpp: topology =========================== *)

(* layered_flags is a bit set; it is kept as the set of the bits set *)
LayeredFlags(node, nn, per) ==
    (IF node = 0 THEN {LAYERED_BOTTOM} ELSE {})
        \cup (IF node = nn - 1 THEN {LAYERED_TOP} ELSE {})
        \cup (IF per THEN {LAYERED_PERIODIC} ELSE {})

LAYERED_TOP_NEIGHBOR(flags) == (flags \cap LAYERED_TOP_MASK) # {LAYERED_TOP}

LAYERED_BTM_NEIGHBOR(flags) == (flags \cap LAYERED_BTM_MASK) # {LAYERED_BOTTOM}

TopOf(node, nn, flags) ==
    IF node + 1 = nn /\ LAYERED_PERIODIC \in flags THEN 0 ELSE node + 1

BtmOf(node, nn, flags) ==
    IF node - 1 = -1 /\ LAYERED_PERIODIC \in flags THEN nn - 1 ELSE node - 1

(* the determination without the clamp to max_num_cells - 2 *)
DetermineNLayersNoClamp(len, range, maxcells) ==
    IF range > 0
    THEN LET n0 == len \div range
         IN  IF n0 < 1 THEN 1 ELSE n0
    ELSE 1

(* n_layers as rank 0 determines it from the interaction range *)
DetermineNLayers(len, range, maxcells) ==
    IF range > 0
    THEN LET n0 == len \div range
             n1 == IF n0 < 1 THEN 1 ELSE n0
         IN  IF n1 > maxcells - 2
             THEN (IF maxcells - 2 > 0 THEN maxcells - 2 ELSE 0)
             ELSE n1
    ELSE 1

(* the runtime error raised while determining n_layers *)
DetermineNLayersError(len, range) == range > 0 /\ (len \div range) < 1

(* ================ layered.cpp: position -> cell ======================== *)

(* floor((z - my_left) * layer_h_i) + 1, with layer_h = h *)
CellPos(z, left, h) == ((z - left) \div h) + 1

(* layered_position_to_cell testing the neighbour below at the top end too *)
PositionToCellBtmOnly(z, left, h, nl, flags) ==
    LET cpos == CellPos(z, left, h)
    IN  IF cpos < 1
        THEN (IF ~LAYERED_BTM_NEIGHBOR(flags) THEN 1 ELSE NoCell)
        ELSE IF cpos > nl
        THEN (IF ~LAYERED_BTM_NEIGHBOR(flags) THEN nl ELSE NoCell)
        ELSE cpos

layered_position_to_cell(z, left, h, nl, flags) ==
    LET cpos == CellPos(z, left, h)
    IN  IF cpos < 1
        THEN (IF ~LAYERED_BTM_NEIGHBOR(flags) THEN 1 ELSE NoCell)
        ELSE IF cpos > nl
        THEN (IF ~LAYERED_TOP_NEIGHBOR(flags) THEN nl ELSE NoCell)
        ELSE cpos

(* ==================== helpers of the particle lists ==================== *)

Abs(x) == IF x < 0 THEN -x ELSE x

(* std::round of dx / l: half away from zero *)
RoundDiv(dx, l) ==
    IF dx >= 0 THEN (2 * dx + l) \div (2 * l) ELSE -((2 * (-dx) + l) \div (2 * l))

(* minimum-image difference a - b along an axis of length l *)
get_mi_coord(a, b, l, per) ==
    LET dx == a - b
    IN  IF per /\ 2 * Abs(dx) > l THEN dx - RoundDiv(dx, l) * l ELSE dx

(* fold a coordinate into [0, l) along a periodic axis *)
fold_position(z, l, per) == IF per THEN z % l ELSE z

(* the list sl without its element i: the last element takes its place *)
RemoveIndexed(sl, i) ==
    IF i = Len(sl) THEN SubSeq(sl, 1, Len(sl) - 1)
    ELSE [k \in 1..(Len(sl) - 1) |-> IF k = i THEN sl[Len(sl)] ELSE sl[k]]

(* move every element of src to dst, always taking element 0 of src *)
RECURSIVE MoveAll(_, _)
MoveAll(dst, src) ==
    IF src = <<>> THEN dst
    ELSE MoveAll(Append(dst, src[1]), RemoveIndexed(src, 1))

(* ------------------------------ state ---------------------------------- *)
VARIABLES
    n_nodes,            \* number of ranks
    periodic,           \* box_geo.periodic(2)
    n_layers,           \* per rank
    layered_flags,      \* per rank
    top, btm,           \* per rank: neighbour above / below
    runtime_errors,     \* per rank: the messages queued by runtimeErrorMsg()
    \* layered_exchange_and_sort_particles
    global_flag,        \* TRUE: CELL_GLOBAL_EXCHANGE
    pos,                \* particle identity -> z position
    cells,              \* per rank: cell index 0..n_layers+1 -> particle list
    displaced_parts,    \* per rank
    send_buf_up, send_buf_dn, recv_buf_up, recv_buf_dn,   \* per rank
    xpc,                \* per rank: place in the exchange
    xop,                \* per rank: next transfer operation of the round
    redo_flag,          \* per rank: flag handed to MPI_Allreduce
    round,              \* per rank: exchange rounds started
    ub,                 \* per rank: a null cell was dereferenced
    \* ghost communication
    data_parts,         \* which of the four communicators is run
    comm,               \* per rank: the plan built by layered_prepare_comm
    gpc,                \* per rank: next step of the plan (1-based)
    g_sent,             \* per rank pair <<s, d>>: sends of s to d completed
    g_recv,             \* per rank pair <<d, s>>: receives of d from s completed
    ghost_src,          \* per rank: cell index -> the <<rank, cell>> delivered into it
    \* layered_topology_init
    local_len,          \* local_geo.length()[2]
    range,              \* the interaction range handed to layered_topology_init
    max_num_cells,
    determine_n_layers,
    tpc,                \* per rank: place in layered_topology_init
    \* layered_position_to_cell
    cell_query,         \* the last call: [node, z, cell], or <<>> before any call
    \* integrate.cpp, minimize_energy.cpp
    ipc,                \* place of the driver: "idle" between calls
    caller,             \* who called integrate_vv: "py" or "min"
    calls,              \* driver calls made so far
    integ_switch,
    integ_switch_old,   \* local of minimize_energy
    skin_set, skin, max_cut, min_cell_range,   \* skin in tenths of a length unit
    skin_derived,       \* how often python_integrate has derived the skin
    recalc_forces,      \* the global flag "forces need recomputation"
    n_rigidbonds, n_part,
    ctrl_C, set_py_interrupt,
    py,                 \* python_integrate: arguments, locals and return value
    vv,                 \* integrate_vv: arguments and the loop counter
    acc,                \* the auto-update accumulator: [frequency, counter]
    max_steps,          \* params->max_steps of the steepest descent
    chunk_log,          \* the mpi_integrate calls of this driver call
    update_log,         \* the auto_update calls of this driver call
    force_calcs,        \* force calculations of this driver call
    steps_begun,        \* integration steps begun in this driver call
    step_ops,           \* what the current loop iteration has executed
    \* one record per further operation, <<>> while the operation is not under study
    descent,            \* minimize_energy.cpp: params, the local particles, the last step
    nptiso,             \* integrate.cpp: nptiso, the prefactors, the last setter call
    dp3m,               \* p3m-dipolar: dp3m.params, dipole.method, the last setter call
    tune,               \* p3m-dipolar: the locals of dp3m_adaptive_tune
    mmm2d,              \* mmm2d: mmm2d_params, the cell system, coulomb.method
    bisect,             \* p3m-dipolar: the arguments and the result of dp3m_rtbisection
    aff,                \* affinity: the pair, ia_params, the last evaluation
    quartic,            \* quartic bond: the parameters, dx and the two results
    nptprop,            \* integrate: one propagate_press_box_pos_and_rescale_npt
    dpmesh,             \* p3m-dipolar: the ranks in the mesh ghost exchange
    farsum,             \* mmm2d: the (p,q) pairs visited by MMM2D_add_far
    distr               \* mmm2d: the ranks in distribute

layVars == <<n_nodes, periodic, n_layers, layered_flags, top, btm>>
exVars == <<global_flag, pos, cells, displaced_parts, send_buf_up, send_buf_dn,
            recv_buf_up, recv_buf_dn, xpc, xop, redo_flag, round, ub>>
ghostVars == <<data_parts, comm, gpc, g_sent, g_recv, ghost_src>>
topoVars == <<local_len, range, max_num_cells, determine_n_layers, tpc>>
intVars == <<ipc, caller, calls, integ_switch, integ_switch_old, skin_set, skin, max_cut,
             min_cell_range, skin_derived, recalc_forces, n_rigidbonds, n_part, ctrl_C,
             set_py_interrupt, py, vv, acc, max_steps, chunk_log, update_log,
             force_calcs, steps_begun, step_ops>>
extraVars == <<descent, nptiso, dp3m, tune, mmm2d, bisect, aff>>
lateVars == <<quartic, nptprop, dpmesh, farsum, distr>>
vars == <<layVars, runtime_errors, exVars, ghostVars, topoVars, cell_query, intVars,
          extraVars, lateVars>>

(* the variables outside one part of the model *)
notEx == <<ghostVars, topoVars, cell_query, intVars, extraVars, lateVars>>
notGhost == <<exVars, topoVars, cell_query, intVars, extraVars, lateVars>>
notTopo == <<exVars, ghostVars, cell_query, intVars, extraVars, lateVars>>
notCell == <<exVars, ghostVars, topoVars, intVars, extraVars, lateVars>>
notInt == <<layVars, exVars, ghostVars, topoVars, cell_query, extraVars, lateVars>>

Nodes == 0..(n_nodes - 1)
Parts == 1..NumParts

(* geometry of the exchange: every rank has the same layer count *)
LocalLen(nl) == nl * layer_h
BoxLen(nn, nl) == nn * LocalLen(nl)
MyLeft(node, nl) == node * LocalLen(nl)
MyRight(node, nl) == (node + 1) * LocalLen(nl)

(* the state layered_topology_init leaves on every rank *)
LayeredTopology(nn, per, nl) ==
    /\ n_nodes = nn
    /\ periodic = per
    /\ n_layers = [r \in 0..(nn - 1) |-> nl]
    /\ layered_flags = [r \in 0..(nn - 1) |-> LayeredFlags(r, nn, per)]
    /\ top = [r \in 0..(nn - 1) |-> TopOf(r, nn, LayeredFlags(r, nn, per))]
    /\ btm = [r \in 0..(nn - 1) |-> BtmOf(r, nn, LayeredFlags(r, nn, per))]

(* ============ layered.cpp: layered_exchange_and_sort_particles ========= *)

GoesDown(z, r) ==
    /\ LAYERED_BTM_NEIGHBOR(layered_flags[r])
    /\ get_mi_coord(z, MyLeft(r, n_layers[r]), BoxLen(n_nodes, n_layers[r]), periodic) < 0

GoesUp(z, r) ==
    /\ LAYERED_TOP_NEIGHBOR(layered_flags[r])
    /\ get_mi_coord(z, MyRight(r, n_layers[r]), BoxLen(n_nodes, n_layers[r]), periodic) >= 0

(* the loop without the test n_nodes != 1 *)
RECURSIVE SortDisplacedAnyNodes(_, _, _, _, _)
SortDisplacedAnyNodes(p, r, disp, up, dn) ==
    IF p > Len(disp) THEN [disp |-> disp, up |-> up, dn |-> dn]
    ELSE IF GoesDown(pos[disp[p]], r)
    THEN SortDisplacedAnyNodes(p, r, RemoveIndexed(disp, p), up, Append(dn, disp[p]))
    ELSE IF GoesUp(pos[disp[p]], r)
    THEN SortDisplacedAnyNodes(p, r, RemoveIndexed(disp, p), Append(up, disp[p]), dn)
    ELSE SortDisplacedAnyNodes(p + 1, r, disp, up, dn)

(* the loop "sort local particles": p is the (1-based) loop index *)
RECURSIVE SortDisplaced(_, _, _, _, _)
SortDisplaced(p, r, disp, up, dn) ==
    IF p > Len(disp) THEN [disp |-> disp, up |-> up, dn |-> dn]
    ELSE IF n_nodes # 1 /\ GoesDown(pos[disp[p]], r)
    THEN SortDisplaced(p, r, RemoveIndexed(disp, p), up, Append(dn, disp[p]))
    ELSE IF n_nodes # 1 /\ GoesUp(pos[disp[p]], r)
    THEN SortDisplaced(p, r, RemoveIndexed(disp, p), Append(up, disp[p]), dn)
    ELSE SortDisplaced(p + 1, r, disp, up, dn)

(* layered_append_particles: st = [pl, up, dn, cs, ps, ub] *)
RECURSIVE layered_append_particles(_, _)
layered_append_particles(r, st) ==
    IF st.pl = <<>> THEN st
    ELSE LET id == st.pl[1]
             z == fold_position(st.ps[id], BoxLen(n_nodes, n_layers[r]), periodic)
             rest == RemoveIndexed(st.pl, 1)
             ps1 == [st.ps EXCEPT ![id] = z]
             c == layered_position_to_cell(z, MyLeft(r, n_layers[r]), layer_h,
                                           n_layers[r], layered_flags[r])
         IN  IF GoesDown(z, r)
             THEN layered_append_particles(r,
                      [st EXCEPT !.pl = rest, !.ps = ps1, !.dn = Append(st.dn, id)])
             ELSE IF GoesUp(z, r)
             THEN layered_append_particles(r,
                      [st EXCEPT !.pl = rest, !.ps = ps1, !.up = Append(st.up, id)])
             ELSE IF c = NoCell
             THEN layered_append_particles(r,
                      [st EXCEPT !.pl = rest, !.ps = ps1, !.ub = TRUE])
             ELSE layered_append_particles(r,
                      [st EXCEPT !.pl = rest, !.ps = ps1,
                                 !.cs = [st.cs EXCEPT ![c] = Append(st.cs[c], id)]])

(* the transfer operations of one round, in program order *)
SendDn(r) == [type |-> "send", buf |-> "dn", node |-> btm[r]]
SendUp(r) == [type |-> "send", buf |-> "up", node |-> top[r]]
RecvUp(r) == [type |-> "recv", buf |-> "up", node |-> top[r]]
RecvDn(r) == [type |-> "recv", buf |-> "dn", node |-> btm[r]]

ExchangeOps(r) ==
    LET T == LAYERED_TOP_NEIGHBOR(layered_flags[r])
        B == LAYERED_BTM_NEIGHBOR(layered_flags[r])
        sd == IF B THEN <<SendDn(r)>> ELSE <<>>
        ru == IF T THEN <<RecvUp(r)>> ELSE <<>>
        su == IF T THEN <<SendUp(r)>> ELSE <<>>
        rd == IF B THEN <<RecvDn(r)>> ELSE <<>>
    IN  IF n_nodes > 1
        THEN (IF r % 2 = 0 THEN sd \o ru \o su \o rd ELSE ru \o sd \o rd \o su)
        ELSE <<>>

(* EmergencySort that files only the particles queued upwards *)
EmergencySortUpOnly(cs, nl, up, dn) == [cs EXCEPT ![1] = MoveAll(cs[1], up)]

(* "sort left over particles into border cells" *)
EmergencySort(cs, nl, up, dn) ==
    LET c1 == [cs EXCEPT ![1] = MoveAll(cs[1], up)]
    IN  [c1 EXCEPT ![nl] = MoveAll(c1[nl], dn)]

(* --- actions of the exchange; r is the rank that takes the step --- *)

(* lines 438-460: sort the displaced particles into the send buffers *)
SortLocal(r) ==
    /\ xpc[r] = "sort"
    /\ LET res == SortDisplaced(1, r, displaced_parts[r], <<>>, <<>>)
       IN  /\ displaced_parts' = [displaced_parts EXCEPT ![r] = res.disp]
           /\ send_buf_up' = [send_buf_up EXCEPT ![r] = res.up]
           /\ send_buf_dn' = [send_buf_dn EXCEPT ![r] = res.dn]
    /\ xpc' = [xpc EXCEPT ![r] = "transfer"]
    /\ xop' = [xop EXCEPT ![r] = 1]
    /\ round' = [round EXCEPT ![r] = 1]
    /\ UNCHANGED notEx
    /\ UNCHANGED <<layVars, runtime_errors, global_flag, pos, cells,
                   recv_buf_up, recv_buf_dn, redo_flag, ub>>

AtOp(r, type, peer) ==
    /\ xpc[r] = "transfer"
    /\ xop[r] <= Len(ExchangeOps(r))
    /\ ExchangeOps(r)[xop[r]].type = type
    /\ ExchangeOps(r)[xop[r]].node = peer

(* lines 464-505: send_particles on s meets the matching recv_particles on d *)
Transfer(s, d) ==
    /\ s # d
    /\ AtOp(s, "send", d)
    /\ AtOp(d, "recv", s)
    /\ LET sop == ExchangeOps(s)[xop[s]]
           rop == ExchangeOps(d)[xop[d]]
           data == IF sop.buf = "up" THEN send_buf_up[s] ELSE send_buf_dn[s]
       IN  /\ send_buf_up' = IF sop.buf = "up"
                             THEN [send_buf_up EXCEPT ![s] = <<>>] ELSE send_buf_up
           /\ send_buf_dn' = IF sop.buf = "dn"
                             THEN [send_buf_dn EXCEPT ![s] = <<>>] ELSE send_buf_dn
           /\ recv_buf_up' = IF rop.buf = "up"
                             THEN [recv_buf_up EXCEPT ![d] = recv_buf_up[d] \o data]
                             ELSE recv_buf_up
           /\ recv_buf_dn' = IF rop.buf = "dn"
                             THEN [recv_buf_dn EXCEPT ![d] = recv_buf_dn[d] \o data]
                             ELSE recv_buf_dn
    /\ xop' = [xop EXCEPT ![s] = xop[s] + 1, ![d] = xop[d] + 1]
    /\ UNCHANGED notEx
    /\ UNCHANGED <<layVars, runtime_errors, global_flag, pos, cells,
                   displaced_parts, xpc, redo_flag, round, ub>>

BuffersNotEmpty(r) ==
    \/ recv_buf_up[r] # <<>>
    \/ recv_buf_dn[r] # <<>>
    \/ send_buf_dn[r] # <<>>
    \/ send_buf_up[r] # <<>>

(* lines 506-520: the single-rank buffer check, the two calls of
   layered_append_particles, and the redo flag *)
AppendParticles(r) ==
    /\ xpc[r] = "transfer"
    /\ xop[r] > Len(ExchangeOps(r))
    /\ IF n_nodes = 1 /\ BuffersNotEmpty(r)
       THEN /\ xpc' = [xpc EXCEPT ![r] = "errexit"]
            /\ UNCHANGED <<pos, cells, send_buf_up, send_buf_dn, recv_buf_up,
                           recv_buf_dn, redo_flag, ub>>
       ELSE LET st0 == [pl |-> recv_buf_up[r], up |-> send_buf_up[r],
                        dn |-> send_buf_dn[r], cs |-> cells[r], ps |-> pos,
                        ub |-> ub[r]]
                st1 == layered_append_particles(r, st0)
                st2 == layered_append_particles(r, [st1 EXCEPT !.pl = recv_buf_dn[r]])
            IN  /\ recv_buf_up' = [recv_buf_up EXCEPT ![r] = st1.pl]
                /\ recv_buf_dn' = [recv_buf_dn EXCEPT ![r] = st2.pl]
                /\ send_buf_up' = [send_buf_up EXCEPT ![r] = st2.up]
                /\ send_buf_dn' = [send_buf_dn EXCEPT ![r] = st2.dn]
                /\ cells' = [cells EXCEPT ![r] = st2.cs]
                /\ pos' = st2.ps
                /\ ub' = [ub EXCEPT ![r] = st2.ub]
                /\ redo_flag' = [redo_flag EXCEPT ![r] = (st2.up # <<>> \/ st2.dn # <<>>)]
                /\ xpc' = [xpc EXCEPT ![r] = "handshake"]
    /\ UNCHANGED notEx
    /\ UNCHANGED <<layVars, runtime_errors, global_flag, displaced_parts, xop, round>>

(* the reduction with MPI_MIN in place of MPI_MAX *)
RedoMin(flags, nodes) == \A r \in nodes : flags[r]

(* line 526: redo is the maximum of the flags of all ranks *)
Redo(flags, nodes) == \E r \in nodes : flags[r]

(* lines 525-529: MPI_Allreduce(MPI_MAX) over the flags of all ranks *)
AllReduce ==
    /\ global_flag
    /\ \A r \in Nodes : xpc[r] = "handshake"
    /\ IF Redo(redo_flag, Nodes)
       THEN /\ xpc' = [r \in Nodes |-> "transfer"]
            /\ xop' = [r \in Nodes |-> 1]
            /\ round' = [r \in Nodes |-> round[r] + 1]
       ELSE /\ xpc' = [r \in Nodes |-> "done"]
            /\ UNCHANGED <<xop, round>>
    /\ UNCHANGED notEx
    /\ UNCHANGED <<layVars, runtime_errors, global_flag, pos, cells, displaced_parts,
                   send_buf_up, send_buf_dn, recv_buf_up, recv_buf_dn, redo_flag, ub>>

(* lines 530-543: a per-step exchange ends after one round *)
HandshakeLocal(r) ==
    /\ ~global_flag
    /\ xpc[r] = "handshake"
    /\ IF redo_flag[r]
       THEN /\ runtime_errors' = [runtime_errors EXCEPT ![r] =
                                    @ \cup {"particle moved more than one cell"}]
            /\ cells' = [cells EXCEPT ![r] =
                           EmergencySort(cells[r], n_layers[r],
                                         send_buf_up[r], send_buf_dn[r])]
            /\ send_buf_up' = [send_buf_up EXCEPT ![r] = <<>>]
            /\ send_buf_dn' = [send_buf_dn EXCEPT ![r] = <<>>]
       ELSE UNCHANGED <<runtime_errors, cells, send_buf_up, send_buf_dn>>
    /\ xpc' = [xpc EXCEPT ![r] = "done"]
    /\ UNCHANGED notEx
    /\ UNCHANGED <<layVars, global_flag, pos, displaced_parts, recv_buf_up,
                   recv_buf_dn, xop, redo_flag, round, ub>>

(* the particle lists of a rank holding the particles whose home it is *)
RECURSIVE SeqOfSet(_)
SeqOfSet(S) ==
    IF S = {} THEN <<>>
    ELSE LET m == CHOOSE x \in S : \A y \in S : x <= y
         IN  <<m>> \o SeqOfSet(S \ {m})

(* the parts of the state a specification does not use stay as they are here *)
ExchangeIdle ==
    /\ global_flag = FALSE
    /\ pos = <<>>
    /\ cells = <<>>
    /\ displaced_parts = <<>>
    /\ send_buf_up = <<>>
    /\ send_buf_dn = <<>>
    /\ recv_buf_up = <<>>
    /\ recv_buf_dn = <<>>
    /\ xpc = <<>>
    /\ xop = <<>>
    /\ redo_flag = <<>>
    /\ round = <<>>
    /\ ub = <<>>

GhostIdle ==
    /\ data_parts = "PARTNUM"
    /\ comm = <<>>
    /\ gpc = <<>>
    /\ g_sent = <<>>
    /\ g_recv = <<>>
    /\ ghost_src = <<>>

TopoIdle ==
    /\ local_len = 0
    /\ range = 0
    /\ max_num_cells = 0
    /\ determine_n_layers = TRUE
    /\ tpc = <<>>

CellIdle == cell_query = <<>>

LateIdle ==
    /\ quartic = <<>> /\ nptprop = <<>> /\ dpmesh = <<>> /\ farsum = <<>>
    /\ distr = <<>>

EarlyIdle ==
    /\ descent = <<>> /\ nptiso = <<>> /\ dp3m = <<>> /\ tune = <<>>
    /\ mmm2d = <<>> /\ bisect = <<>> /\ aff = <<>>

ExtraIdle == EarlyIdle /\ LateIdle

IntIdle ==
    /\ ipc = "idle"
    /\ caller = "none"
    /\ calls = 0
    /\ integ_switch = "NVT"
    /\ integ_switch_old = "NVT"
    /\ skin_set = FALSE
    /\ skin = 0
    /\ max_cut = 0
    /\ min_cell_range = 0
    /\ skin_derived = 0
    /\ recalc_forces = TRUE
    /\ n_rigidbonds = 0
    /\ n_part = 0
    /\ ctrl_C = 0
    /\ set_py_interrupt = FALSE
    /\ py = <<>>
    /\ vv = <<>>
    /\ acc = <<>>
    /\ max_steps = 0
    /\ chunk_log = <<>>
    /\ update_log = <<>>
    /\ force_calcs = 0
    /\ steps_begun = 0
    /\ step_ops = {}

LayIdle ==
    /\ n_nodes = 1
    /\ periodic = FALSE
    /\ n_layers = <<>>
    /\ layered_flags = <<>>
    /\ top = <<>>
    /\ btm = <<>>

\* the cell system and the integrator at rest, no runtime error queued
CoreIdle ==
    /\ LayIdle /\ ExchangeIdle /\ GhostIdle /\ TopoIdle /\ CellIdle /\ IntIdle
    /\ runtime_errors = [r \in {0} |-> {}]

ExchangeInit ==
    /\ IntIdle /\ ExtraIdle
    /\ GhostIdle
    /\ TopoIdle
    /\ CellIdle
    /\ \E nn \in 1..MaxNodes, per \in BOOLEAN, nl \in 1..MaxLayers :
        /\ LayeredTopology(nn, per, nl)
        /\ global_flag \in BOOLEAN
        /\ pos \in [Parts -> (0 - Margin)..(BoxLen(nn, nl) - 1 + Margin)]
        /\ \E home \in [Parts -> 0..(nn - 1)] :
              /\ \A p \in Parts : p + 1 \in Parts => home[p] <= home[p + 1]
              /\ displaced_parts =
                    [r \in 0..(nn - 1) |-> SeqOfSet({p \in Parts : home[p] = r})]
        /\ cells = [r \in 0..(nn - 1) |-> [c \in 0..(nl + 1) |-> <<>>]]
        /\ send_buf_up = [r \in 0..(nn - 1) |-> <<>>]
        /\ send_buf_dn = [r \in 0..(nn - 1) |-> <<>>]
        /\ recv_buf_up = [r \in 0..(nn - 1) |-> <<>>]
        /\ recv_buf_dn = [r \in 0..(nn - 1) |-> <<>>]
        /\ xpc = [r \in 0..(nn - 1) |-> "sort"]
        /\ xop = [r \in 0..(nn - 1) |-> 1]
        /\ redo_flag = [r \in 0..(nn - 1) |-> FALSE]
        /\ round = [r \in 0..(nn - 1) |-> 0]
        /\ ub = [r \in 0..(nn - 1) |-> FALSE]
        /\ runtime_errors = [r \in 0..(nn - 1) |-> {}]

ExchangeNext ==
    \/ \E r \in Nodes : SortLocal(r)
    \/ \E s \in Nodes : \E d \in Nodes : Transfer(s, d)
    \/ \E r \in Nodes : AppendParticles(r)
    \/ AllReduce
    \/ \E r \in Nodes : HandshakeLocal(r)

SpecExchange == ExchangeInit /\ [][ExchangeNext]_vars

(* --------------------------- exchange: claims -------------------------- *)

RECURSIVE CatCells(_, _, _)
CatCells(cs, c, hi) == IF c > hi THEN <<>> ELSE cs[c] \o CatCells(cs, c + 1, hi)

(* the particles a rank holds: its displaced list and all its cells *)
Held(r) == displaced_parts[r] \o CatCells(cells[r], 0, n_layers[r] + 1)

Occ(list, id) == Cardinality({k \in DOMAIN list : list[k] = id})

RECURSIVE HeldCount(_, _)
HeldCount(id, r) == IF r < 0 THEN 0 ELSE Occ(Held(r), id) + HeldCount(id, r - 1)

ExchangeAllDone == \A r \in Nodes : xpc[r] = "done"

BuffersEmpty ==
    \A r \in Nodes : /\ send_buf_up[r] = <<>>
                     /\ send_buf_dn[r] = <<>>
                     /\ recv_buf_up[r] = <<>>
                     /\ recv_buf_dn[r] = <<>>

(* C1: once layered_exchange_and_sort_particles has run on all ranks (global
   or per-step mode, z periodic or not), every particle identity is held
   exactly once in the ranks' cells and displaced-particle lists, and no
   particle is left in a send or receive buffer. *)
C1_ParticleConservation ==
    ExchangeAllDone =>
        /\ \A id \in Parts : HeldCount(id, n_nodes - 1) = 1
        /\ BuffersEmpty
        /\ \A r \in Nodes : ~ub[r]

C1_Witness ==
    /\ ExchangeAllDone
    /\ periodic
    /\ n_nodes = 3
    /\ \E r \in Nodes : round[r] >= 2
    /\ \E r \in Nodes : \E c \in 1..n_layers[r] : Len(cells[r][c]) = NumParts

(* C3 as claimed: in a per-step exchange every particle still queued after
   the round is reported and filed into the boundary cell nearest to where
   it has to go: queued for the rank above into cell n_layers, queued for the
   rank below into cell 1; afterwards both send buffers are empty. *)
C3_EmergencyNearestCell ==
    [][\A r \in Nodes :
          (~global_flag /\ xpc[r] = "handshake" /\ xpc'[r] = "done") =>
              /\ \A k \in DOMAIN send_buf_up[r] :
                     Occ(cells'[r][n_layers[r]], send_buf_up[r][k]) = 1
              /\ \A k \in DOMAIN send_buf_dn[r] :
                     Occ(cells'[r][1], send_buf_dn[r][k]) = 1
              /\ (redo_flag[r] => runtime_errors'[r] # {})
              /\ send_buf_up'[r] = <<>>
              /\ send_buf_dn'[r] = <<>>]_vars

ExchangeClean ==
    /\ ExchangeAllDone
    /\ \A r \in Nodes : round[r] = round[0]
    /\ BuffersEmpty

(* C4: a global re-sort terminates: the number of rounds never exceeds the
   number of ranks, some rank can always take its next step until all ranks
   have left the loop, they leave it after the same round, and on exit the
   send and receive buffers of every rank are empty. *)
C4_GlobalResortTerminates ==
    global_flag =>
        /\ \A r \in Nodes : round[r] <= n_nodes
        /\ ~ExchangeAllDone => ENABLED ExchangeNext
        /\ \A r \in Nodes : xpc[r] = "done" => ExchangeClean

C4_Witness ==
    /\ global_flag
    /\ ExchangeClean
    /\ n_nodes = 3
    /\ round[0] = 2
    /\ \E r \in Nodes : \E c \in 1..n_layers[r] : cells[r][c] # <<>>

(* C29: on a single rank no particle is ever placed in a send or a receive
   buffer, wherever the particles are and whether z is periodic or not; so the
   "1 node but transfer buffers are not empty" exit is never taken, and the
   exchange leaves its loop after the first round. *)
C29_SingleRankNoBuffers ==
    n_nodes = 1 =>
        /\ xpc[0] # "errexit"
        /\ ~BuffersNotEmpty(0)
        /\ round[0] <= 1
        /\ ~redo_flag[0]
        /\ xpc[0] = "done" => round[0] = 1

C29_Witness ==
    /\ n_nodes = 1 /\ periodic /\ global_flag
    /\ xpc[0] = "done" /\ round[0] = 1
    /\ LAYERED_TOP_NEIGHBOR(layered_flags[0])
    /\ \E p \in Parts : pos[p] < 0
    /\ \E p \in Parts : pos[p] >= BoxLen(1, n_layers[0])
    /\ Len(displaced_parts[0]) = NumParts

(* =================== layered.cpp: layered_prepare_comm ================= *)

GHOSTTRANS == {"PARTNUM", "PROPRTS_POSITION", "POSITION", "FORCE"}

HasPosition(dp) == dp \in {"PROPRTS_POSITION", "POSITION"}

GhostStep(type, prefetch, node, cell, cell2, shift) ==
    [type |-> type, prefetch |-> prefetch, node |-> node, cell |-> cell,
     cell2 |-> cell2, shift |-> shift]

(* lines 142-167: the send step of the downward transfer; c steps precede it *)
DownSend(r, c, dp, nl, flags, bt) ==
    GhostStep("SEND", c = 1, bt,
              IF dp = "FORCE" THEN 0 ELSE 1, NoCell,
              IF dp # "FORCE" /\ (flags \cap LAYERED_BTM_MASK) = LAYERED_BTM_MASK
                 /\ HasPosition(dp)
              THEN 1 ELSE 0)

(* lines 170-186 *)
DownRecv(r, c, dp, nl, flags, tp) ==
    GhostStep("RECV", c = 0, tp,
              IF dp = "FORCE" THEN nl ELSE nl + 1, NoCell, 0)

(* lines 193-219 *)
UpSend(r, c, dp, nl, flags, tp) ==
    GhostStep("SEND", c % 2 = 1, tp,
              IF dp = "FORCE" THEN nl + 1 ELSE nl, NoCell,
              IF dp # "FORCE" /\ (flags \cap LAYERED_TOP_MASK) = LAYERED_TOP_MASK
                 /\ HasPosition(dp)
              THEN -1 ELSE 0)

(* lines 222-239 *)
UpRecv(r, c, dp, nl, flags, bt) ==
    GhostStep("RECV", c % 2 = 0, bt,
              IF dp = "FORCE" THEN 1 ELSE 0, NoCell, 0)

(* DownPhase with the receive tested on the rank's own parity *)
DownPhaseOwnParity(plan, even_odd, r, dp, nl, flags, tp, bt) ==
    LET p1 == IF r % 2 = even_odd /\ LAYERED_BTM_NEIGHBOR(flags)
              THEN Append(plan, DownSend(r, Len(plan), dp, nl, flags, bt))
              ELSE plan
    IN  IF r % 2 = even_odd /\ LAYERED_TOP_NEIGHBOR(flags)
        THEN Append(p1, DownRecv(r, Len(p1), dp, nl, flags, tp))
        ELSE p1

(* one pass of the loop over even_odd of the downward transfer *)
DownPhase(plan, even_odd, r, dp, nl, flags, tp, bt) ==
    LET p1 == IF r % 2 = even_odd /\ LAYERED_BTM_NEIGHBOR(flags)
              THEN Append(plan, DownSend(r, Len(plan), dp, nl, flags, bt))
              ELSE plan
    IN  IF tp % 2 = even_odd /\ LAYERED_TOP_NEIGHBOR(flags)
        THEN Append(p1, DownRecv(r, Len(p1), dp, nl, flags, tp))
        ELSE p1

(* UpPhase with the receive tested on the rank's own parity *)
UpPhaseOwnParity(plan, even_odd, r, dp, nl, flags, tp, bt) ==
    LET p1 == IF r % 2 = even_odd /\ LAYERED_TOP_NEIGHBOR(flags)
              THEN Append(plan, UpSend(r, Len(plan), dp, nl, flags, tp))
              ELSE plan
    IN  IF r % 2 = even_odd /\ LAYERED_BTM_NEIGHBOR(flags)
        THEN Append(p1, UpRecv(r, Len(p1), dp, nl, flags, bt))
        ELSE p1

(* one pass of the loop over even_odd of the upward transfer *)
UpPhase(plan, even_odd, r, dp, nl, flags, tp, bt) ==
    LET p1 == IF r % 2 = even_odd /\ LAYERED_TOP_NEIGHBOR(flags)
              THEN Append(plan, UpSend(r, Len(plan), dp, nl, flags, tp))
              ELSE plan
    IN  IF bt % 2 = even_odd /\ LAYERED_BTM_NEIGHBOR(flags)
        THEN Append(p1, UpRecv(r, Len(p1), dp, nl, flags, bt))
        ELSE p1

(* lines 244-289: one rank, local copies *)
LocalPlan(r, dp, nl, flags) ==
    IF LAYERED_PERIODIC \in flags
    THEN << GhostStep("LOCL", FALSE, r,
                      IF dp = "FORCE" THEN 0 ELSE 1,
                      IF dp = "FORCE" THEN nl ELSE nl + 1,
                      IF dp = "FORCE" THEN 0 ELSE 1),
            GhostStep("LOCL", FALSE, r,
                      IF dp = "FORCE" THEN nl + 1 ELSE nl,
                      IF dp = "FORCE" THEN 1 ELSE 0,
                      IF dp = "FORCE" THEN 0 ELSE -1) >>
    ELSE <<>>

layered_prepare_comm(r, nn, dp, nl, flags, tp, bt) ==
    IF nn > 1
    THEN LET d0 == DownPhase(<<>>, 0, r, dp, nl, flags, tp, bt)
             d1 == DownPhase(d0, 1, r, dp, nl, flags, tp, bt)
             u0 == UpPhase(d1, 0, r, dp, nl, flags, tp, bt)
         IN  UpPhase(u0, 1, r, dp, nl, flags, tp, bt)
    ELSE LocalPlan(r, dp, nl, flags)

(* --- running the plan: each rank executes its steps in order with blocking
       send and receive --- *)

GhostAt(r, type, peer) ==
    /\ gpc[r] <= Len(comm[r])
    /\ comm[r][gpc[r]].type = type
    /\ comm[r][gpc[r]].node = peer

GhostTransfer(s, d) ==
    /\ s # d
    /\ GhostAt(s, "SEND", d)
    /\ GhostAt(d, "RECV", s)
    /\ gpc' = [gpc EXCEPT ![s] = gpc[s] + 1, ![d] = gpc[d] + 1]
    /\ g_sent' = [g_sent EXCEPT ![<<s, d>>] = @ + 1]
    /\ g_recv' = [g_recv EXCEPT ![<<d, s>>] = @ + 1]
    /\ ghost_src' = [ghost_src EXCEPT ![d][comm[d][gpc[d]].cell] =
                        @ \cup {<<s, comm[s][gpc[s]].cell>>}]
    /\ UNCHANGED <<layVars, runtime_errors, notGhost, data_parts, comm>>

GhostLocal(r) ==
    /\ GhostAt(r, "LOCL", r)
    /\ gpc' = [gpc EXCEPT ![r] = gpc[r] + 1]
    /\ ghost_src' = [ghost_src EXCEPT ![r][comm[r][gpc[r]].cell2] =
                        @ \cup {<<r, comm[r][gpc[r]].cell>>}]
    /\ UNCHANGED <<layVars, runtime_errors, notGhost, data_parts, comm, g_sent, g_recv>>

GhostInit ==
    /\ IntIdle /\ ExtraIdle
    /\ ExchangeIdle
    /\ TopoIdle
    /\ CellIdle
    /\ \E nn \in 1..MaxGhostNodes, per \in BOOLEAN, nl \in 1..MaxLayers :
        /\ LayeredTopology(nn, per, nl)
        /\ data_parts \in GHOSTTRANS
        /\ comm = [r \in 0..(nn - 1) |->
                     layered_prepare_comm(r, nn, data_parts, nl, LayeredFlags(r, nn, per),
                                          TopOf(r, nn, LayeredFlags(r, nn, per)),
                                          BtmOf(r, nn, LayeredFlags(r, nn, per)))]
        /\ gpc = [r \in 0..(nn - 1) |-> 1]
        /\ g_sent = [pr \in (0..(nn - 1)) \X (0..(nn - 1)) |-> 0]
        /\ g_recv = [pr \in (0..(nn - 1)) \X (0..(nn - 1)) |-> 0]
        /\ ghost_src = [r \in 0..(nn - 1) |-> [c \in 0..(nl + 1) |-> {}]]
        /\ runtime_errors = [r \in 0..(nn - 1) |-> {}]

GhostNext ==
    \/ \E s \in Nodes : \E d \in Nodes : GhostTransfer(s, d)
    \/ \E r \in Nodes : GhostLocal(r)

SpecGhost == GhostInit /\ [][GhostNext]_vars

(* every step that can be taken is taken eventually: a blocking call returns
   once its partner has made the matching call *)
FairSpecGhost == SpecGhost /\ WF_vars(GhostNext)

(* ------------------------- ghost plan: claims -------------------------- *)

GhostAllDone == \A r \in Nodes : gpc[r] > Len(comm[r])

StepsOf(r, type, peer) ==
    Cardinality({k \in 1..Len(comm[r]) : comm[r][k].type = type /\ comm[r][k].node = peer})

GhostMatched ==
    \A s \in Nodes : \A d \in Nodes :
        s # d => /\ StepsOf(s, "SEND", d) = StepsOf(d, "RECV", s)
                 /\ g_sent[<<s, d>>] = StepsOf(s, "SEND", d)
                 /\ g_recv[<<d, s>>] = StepsOf(d, "RECV", s)

(* C2: for every rank count and z periodic or not, the ranks executing their
   plans in order with blocking send/receive all reach the end of their plan,
   and per rank pair every send step is matched by exactly one receive step
   on the neighbour. *)
C2_GhostPlanCompletes == <>[](GhostAllDone /\ GhostMatched)

C2_Witness ==
    /\ GhostAllDone
    /\ n_nodes = 3
    /\ periodic
    /\ g_sent[<<2, 0>>] = 1
    /\ g_sent[<<0, 2>>] = 1

(* ================= layered.cpp: layered_topology_init ================== *)

(* lines 311-324: rank 0 determines n_layers *)
TopoDetermine(r) ==
    /\ tpc[r] = "start"
    /\ IF r = 0 /\ determine_n_layers
       THEN /\ n_layers' = [n_layers EXCEPT ![r] =
                               DetermineNLayers(local_len, range, max_num_cells)]
            /\ runtime_errors' =
                  IF DetermineNLayersError(local_len, range)
                  THEN [runtime_errors EXCEPT ![r] =
                          @ \cup {"layered: maximal interaction range larger than local box length"}]
                  ELSE runtime_errors
       ELSE UNCHANGED <<n_layers, runtime_errors>>
    /\ tpc' = [tpc EXCEPT ![r] = "bcast"]
    /\ UNCHANGED <<n_nodes, periodic, layered_flags, top, btm, notTopo,
                   local_len, range, max_num_cells, determine_n_layers>>

(* lines 325-342: MPI_Bcast of n_layers from rank 0, then the flags and the
   neighbours of the rank *)
TopoBcast(r) ==
    /\ tpc[r] = "bcast"
    /\ tpc[0] # "start"
    /\ n_layers' = [n_layers EXCEPT ![r] = n_layers[0]]
    /\ layered_flags' = [layered_flags EXCEPT ![r] = LayeredFlags(r, n_nodes, periodic)]
    /\ top' = [top EXCEPT ![r] = TopOf(r, n_nodes, LayeredFlags(r, n_nodes, periodic))]
    /\ btm' = [btm EXCEPT ![r] = BtmOf(r, n_nodes, LayeredFlags(r, n_nodes, periodic))]
    /\ tpc' = [tpc EXCEPT ![r] = "done"]
    /\ UNCHANGED <<n_nodes, periodic, runtime_errors, notTopo,
                   local_len, range, max_num_cells, determine_n_layers>>

TopoInit ==
    /\ IntIdle /\ ExtraIdle
    /\ ExchangeIdle
    /\ GhostIdle
    /\ CellIdle
    /\ n_nodes \in 1..MaxNodes
    /\ periodic \in BOOLEAN
    /\ local_len \in 1..MaxLen
    /\ range \in (-1)..(MaxLen + 1)
    /\ max_num_cells \in 1..MaxCells
    /\ determine_n_layers \in BOOLEAN
    /\ \E n0 \in 1..MaxLayers, stale \in {-1, MaxLayers} :
          n_layers = [r \in Nodes |->
                        IF r = 0 /\ ~determine_n_layers THEN n0 ELSE stale]
    /\ layered_flags = [r \in Nodes |-> {}]
    /\ top = [r \in Nodes |-> 0]
    /\ btm = [r \in Nodes |-> 0]
    /\ tpc = [r \in Nodes |-> "start"]
    /\ runtime_errors = [r \in Nodes |-> {}]

TopoNext ==
    \/ \E r \in Nodes : TopoDetermine(r)
    \/ \E r \in Nodes : TopoBcast(r)

SpecTopology == TopoInit /\ [][TopoNext]_vars

TopoAllDone == \A r \in Nodes : tpc[r] = "done"

(* C6 as claimed: when the layer count is auto-determined, after
   layered_topology_init n_layers is the same on every rank and lies in
   [1, max_num_cells - 2], for every interaction range and every
   max_num_cells. *)
C6_NLayersInRange ==
    (determine_n_layers /\ TopoAllDone) =>
        /\ \A r \in Nodes : n_layers[r] = n_layers[0]
        /\ n_layers[0] >= 1
        /\ n_layers[0] <= max_num_cells - 2

(* C6, amended: when the layer count is auto-determined, after
   layered_topology_init n_layers is the same on every rank; it lies in
   [1, max_num_cells - 2] whenever max_num_cells >= 3, and for
   max_num_cells <= 2 it is 0 if the range is positive and 1 otherwise. *)
C6_NLayersAmended ==
    (determine_n_layers /\ TopoAllDone) =>
        /\ \A r \in Nodes : n_layers[r] = n_layers[0]
        /\ max_num_cells >= 3 =>
              (n_layers[0] >= 1 /\ n_layers[0] <= max_num_cells - 2)
        /\ max_num_cells <= 2 => n_layers[0] = (IF range > 0 THEN 0 ELSE 1)

(* three ranks agree on a count that the clamp has cut to max_num_cells - 2 *)
C6_Witness ==
    /\ determine_n_layers
    /\ TopoAllDone
    /\ n_nodes = 3
    /\ max_num_cells >= 3
    /\ range > 0
    /\ local_len \div range > max_num_cells - 2
    /\ n_layers[2] = max_num_cells - 2

(* ================ layered.cpp: layered_position_to_cell ================ *)

PositionToCell(r, z) ==
    /\ cell_query' = [node |-> r, z |-> z,
                      cell |-> layered_position_to_cell(z, MyLeft(r, n_layers[r]), layer_h,
                                                        n_layers[r], layered_flags[r])]
    /\ UNCHANGED <<layVars, runtime_errors, notCell>>

CellInit ==
    /\ IntIdle /\ ExtraIdle
    /\ ExchangeIdle
    /\ GhostIdle
    /\ TopoIdle
    /\ cell_query = <<>>
    /\ \E nn \in 1..MaxNodes, per \in BOOLEAN, nl \in 1..MaxLayers :
          /\ LayeredTopology(nn, per, nl)
          /\ runtime_errors = [r \in 0..(nn - 1) |-> {}]

CellNext ==
    \E r \in Nodes :
        \E z \in (0 - Margin - layer_h)..(BoxLen(n_nodes, n_layers[r]) + Margin + layer_h) :
            PositionToCell(r, z)

SpecCell == CellInit /\ [][CellNext]_vars

HasNeighborBelow(r) == r > 0 \/ periodic
HasNeighborAbove(r) == r < n_nodes - 1 \/ periodic

(* the layer k of rank r is the half-open interval of z it covers *)
InLayer(z, r, k) ==
    /\ MyLeft(r, n_layers[r]) + (k - 1) * layer_h <= z
    /\ z < MyLeft(r, n_layers[r]) + k * layer_h

(* C5: on a rank with n_layers >= 1, layered_position_to_cell returns the
   local cell whose layer holds z when z lies in the rank's range; for z
   below (above) the range it returns cell 1 (cell n_layers) exactly when
   the rank has no neighbour below (above) and no cell when it has one; it
   never returns a ghost cell. *)
C5_PositionToCell ==
    cell_query # <<>> =>
        LET r == cell_query.node
            z == cell_query.z
            c == cell_query.cell
        IN  /\ c \in (1..n_layers[r]) \cup {NoCell}
            /\ \A k \in 1..n_layers[r] : InLayer(z, r, k) => c = k
            /\ z < MyLeft(r, n_layers[r]) =>
                  c = IF HasNeighborBelow(r) THEN NoCell ELSE 1
            /\ z >= MyRight(r, n_layers[r]) =>
                  c = IF HasNeighborAbove(r) THEN NoCell ELSE n_layers[r]

(* a position just below the range of a rank that has a neighbour below *)
C5_Witness ==
    /\ cell_query # <<>>
    /\ cell_query.node = 1
    /\ cell_query.z = MyLeft(1, n_layers[1]) - 1
    /\ cell_query.cell = NoCell
    /\ n_layers[1] = 2

(***************************************************************************)
(* integrate.cpp, minimize_energy.cpp: the integration driver              *)
(***************************************************************************)

ES_OK == 0
ES_ERROR == 1
INT_MAX == 2147483647

Min(a, b) == IF a < b THEN a ELSE b

(* a non-empty runtime-error queue makes the poll return non-zero *)
check_runtime_errors(errs) == errs # {}

(* distance to the next accumulator update; INT_MAX without accumulators *)
auto_update_next_update(a) == IF a.frequency = 0 THEN INT_MAX ELSE a.counter

(* advance the accumulator by a chunk; it fires and rearms at zero *)
auto_update(a, steps) ==
    IF a.frequency = 0 THEN a
    ELSE IF a.counter - steps <= 0 THEN [a EXCEPT !.counter = a.frequency]
         ELSE [a EXCEPT !.counter = a.counter - steps]

(* python_integrate, the force mode: recalc_forces_par forces a fresh
   calculation and is an error together with reuse_forces_par *)
PyForceModeNoError(recalc_par, reuse_par, errs) ==
    IF recalc_par THEN [reuse |-> -1, errs |-> errs]
    ELSE [reuse |-> IF reuse_par THEN 1 ELSE 0, errs |-> errs]

PyForceMode(recalc_par, reuse_par, errs) ==
    IF recalc_par
    THEN [reuse |-> -1,
          errs |-> IF reuse_par
                   THEN errs \cup {"cannot reuse old forces and recalculate forces"}
                   ELSE errs]
    ELSE [reuse |-> IF reuse_par THEN 1 ELSE 0, errs |-> errs]

DeriveSkinNoRange(mc, mr) == 4 * mc

(* python_integrate, the skin derived from the cutoff, in tenths *)
DeriveSkin(mc, mr) == Min(4 * mc, 10 * (mr - mc))

(* python_integrate, the size of the next chunk *)
ChunkStepsNoCap(n, i, a) == n - i

ChunkSteps(n, i, a) == Min(n - i, auto_update_next_update(a))

(* integrate_vv, whether the forces are calculated before the first step *)
InitialForceCalc(reuse, recalc) == reuse = -1 \/ (recalc /\ reuse # 1)

(* integrate_vv, one loop iteration up to the propagation of the positions *)
StepBeginOps(mode, rigid) ==
    (IF rigid # 0 THEN {"save_old_pos"} ELSE {})
    \cup (IF mode = "NPT_ISO" THEN {"propagate_vel", "propagate_pos"}
          ELSE IF mode = "STEEPEST_DESCENT" THEN {"steepest_descent_step"}
          ELSE {"propagate_vel_pos"})

(* integrate_vv, the iteration from the counter increment to the forces *)
StepForceOps(rigid, np) ==
    {"philox_counter_increment", "cells_update_ghosts", "force_calc"}
    \cup (IF rigid # 0 THEN {"correct_pos_shake"} ELSE {})
    \cup (IF np > 0 THEN {"lb_lbcoupling_activate"} ELSE {})

StepEndOpsNoGuard(mode, rigid) ==
    {"propagate_vel_finalize_p_inst", "lb_lbfluid_propagate",
     "lb_lbcoupling_propagate", "handle_collisions", "check_runtime_errors"}
    \cup (IF rigid # 0 THEN {"correct_vel_shake"} ELSE {})
    \cup (IF mode = "NPT_ISO" THEN {"p_inst_av"} ELSE {})

(* integrate_vv, the iteration after the force calculation *)
StepEndOps(mode, rigid) ==
    (IF mode # "STEEPEST_DESCENT"
     THEN {"propagate_vel_finalize_p_inst", "lb_lbfluid_propagate",
           "lb_lbcoupling_propagate", "handle_collisions"}
     ELSE {})
    \cup (IF rigid # 0 THEN {"correct_vel_shake"} ELSE {})
    \cup (IF mode = "NPT_ISO" THEN {"p_inst_av"} ELSE {})
    \cup {"check_runtime_errors"}

IntErrs == runtime_errors[0]

SetErrs(e) == runtime_errors' = [runtime_errors EXCEPT ![0] = e]

(* an operation that may queue a runtime error *)
MayFail(errs, msg) == {errs, errs \cup {msg}}

(* the script layer between two calls: it raises the queued errors and the
   pending interrupt and clears both *)
ScriptReset ==
    /\ calls < MaxCalls
    /\ calls' = calls + 1
    /\ set_py_interrupt' = FALSE
    /\ chunk_log' = <<>>
    /\ update_log' = <<>>
    /\ force_calcs' = 0
    /\ steps_begun' = 0
    /\ step_ops' = {}

ReturnTo(c) == IF c = "py" THEN "py_after" ELSE "min_after"

cfgVars == <<integ_switch_old, skin_set, max_cut, min_cell_range, n_rigidbonds, n_part,
             max_steps>>

(* python_integrate up to its loop: the handler for SIGINT is installed,
   the force mode and the step count are checked, the skin is derived *)
python_integrate(n, rc, ru) ==
    /\ ipc = "idle"
    /\ ScriptReset
    /\ caller' = "py"
    /\ LET fm == PyForceMode(rc, ru, {})
           base == [n_steps |-> n, recalc |-> rc, reuse_par |-> ru,
                    reuse_forces |-> fm.reuse, i |-> 0, steps |-> 0,
                    interrupted |-> (ctrl_C = 1), returned |-> FALSE, ret |-> ES_OK]
           fail == [base EXCEPT !.returned = TRUE, !.ret = ES_ERROR]
       IN  IF n < 0
           THEN /\ SetErrs(fm.errs \cup {"illegal number of steps (must be >0)"})
                /\ py' = fail
                /\ ipc' = "idle"
                /\ UNCHANGED <<skin, skin_derived>>
           ELSE IF ~skin_set /\ max_cut <= 0
           THEN /\ SetErrs(fm.errs \cup
                       {"cannot automatically determine skin, please set it manually"})
                /\ py' = fail
                /\ ipc' = "idle"
                /\ UNCHANGED <<skin, skin_derived>>
           ELSE /\ SetErrs(fm.errs)
                /\ py' = base
                /\ ipc' = "py_loop"
                /\ IF ~skin_set
                   THEN /\ skin' = DeriveSkin(max_cut, min_cell_range)
                        /\ skin_derived' = skin_derived + 1
                   ELSE UNCHANGED <<skin, skin_derived>>
    /\ UNCHANGED <<integ_switch, recalc_forces, ctrl_C, vv, acc, cfgVars, notInt>>

(* mpi_integrate: every rank enters integrate_vv with the same arguments *)
mpi_integrate(steps, reuse) ==
    /\ vv' = [n_steps |-> steps, reuse |-> reuse, step |-> 0]
    /\ chunk_log' = Append(chunk_log, [steps |-> steps, reuse |-> reuse,
                                       next |-> auto_update_next_update(acc)])
    /\ ipc' = "vv_start"

(* python_integrate, the head of the chunk loop and the call for n_steps = 0 *)
PyLoop ==
    /\ ipc = "py_loop"
    /\ IF py.i < py.n_steps
       THEN LET steps == ChunkSteps(py.n_steps, py.i, acc)
            IN  /\ py' = [py EXCEPT !.steps = steps]
                /\ mpi_integrate(steps, py.reuse_forces)
       ELSE IF py.n_steps = 0
       THEN /\ py' = [py EXCEPT !.steps = 0]
            /\ mpi_integrate(0, py.reuse_forces)
       ELSE /\ py' = [py EXCEPT !.returned = TRUE, !.ret = ES_OK]
            /\ ipc' = "idle"
            /\ UNCHANGED <<vv, chunk_log>>
    /\ UNCHANGED <<caller, calls, integ_switch, skin, skin_derived, recalc_forces, ctrl_C,
                   set_py_interrupt, acc, update_log, force_calcs, steps_begun, step_ops,
                   cfgVars, runtime_errors, notInt>>

(* python_integrate after mpi_integrate has returned *)
PyAfter ==
    /\ ipc = "py_after"
    /\ IF check_runtime_errors(IntErrs)
       THEN /\ py' = [py EXCEPT !.returned = TRUE, !.ret = ES_ERROR]
            /\ ipc' = "idle"
            /\ UNCHANGED <<acc, update_log>>
       ELSE IF py.n_steps = 0
       THEN /\ py' = [py EXCEPT !.returned = TRUE, !.ret = ES_OK]
            /\ ipc' = "idle"
            /\ UNCHANGED <<acc, update_log>>
       ELSE /\ py' = [py EXCEPT !.reuse_forces = 1, !.i = py.i + py.steps]
            /\ acc' = auto_update(acc, py.steps)
            /\ update_log' = Append(update_log, py.steps)
            /\ ipc' = "py_loop"
    /\ UNCHANGED <<caller, calls, integ_switch, skin, skin_derived, recalc_forces, ctrl_C,
                   set_py_interrupt, vv, chunk_log, force_calcs, steps_begun, step_ops,
                   cfgVars, runtime_errors, notInt>>

(* SIGINT while the handler of python_integrate is installed *)
Interrupt ==
    /\ caller = "py"
    /\ ipc # "idle"
    /\ ctrl_C = 0
    /\ ctrl_C' = 1
    /\ py' = [py EXCEPT !.interrupted = TRUE]
    /\ UNCHANGED <<ipc, caller, calls, integ_switch, skin, skin_derived, recalc_forces,
                   set_py_interrupt, vv, acc, chunk_log, update_log, force_calcs,
                   steps_begun, step_ops, cfgVars, runtime_errors, notInt>>

(* minimize_energy up to its call of integrate_vv *)
minimize_energy(ms) ==
    /\ ipc = "idle"
    /\ ScriptReset
    /\ caller' = "min"
    /\ SetErrs({})
    /\ max_steps' = ms
    /\ integ_switch_old' = integ_switch
    /\ integ_switch' = "STEEPEST_DESCENT"
    /\ vv' = [n_steps |-> ms, reuse |-> -1, step |-> 0]
    /\ ipc' = "vv_start"
    /\ UNCHANGED <<skin_set, skin, max_cut, min_cell_range, skin_derived, recalc_forces,
                   n_rigidbonds, n_part, ctrl_C, py, acc, notInt>>

(* a return that leaves integ_switch at INTEG_METHOD_STEEPEST_DESCENT *)
MinAfterNoRestore ==
    /\ ipc = "min_after"
    /\ ipc' = "idle"
    /\ UNCHANGED <<caller, calls, integ_switch, skin, skin_derived, recalc_forces, ctrl_C,
                   set_py_interrupt, py, vv, acc, chunk_log, update_log, force_calcs,
                   steps_begun, step_ops, cfgVars, runtime_errors, notInt>>

(* minimize_energy after integrate_vv has returned *)
MinAfter ==
    /\ ipc = "min_after"
    /\ integ_switch' = integ_switch_old
    /\ ipc' = "idle"
    /\ UNCHANGED <<caller, calls, skin, skin_derived, recalc_forces, ctrl_C,
                   set_py_interrupt, py, vv, acc, chunk_log, update_log, force_calcs,
                   steps_begun, step_ops, cfgVars, runtime_errors, notInt>>

(* integrate_vv before its loop: on_integration_start, the first poll of
   the error queue, the initial force calculation, the second poll *)
IntegrateStart ==
    /\ ipc = "vv_start"
    /\ \E e1 \in MayFail(IntErrs, "on_integration_start") :
          IF check_runtime_errors(e1)
          THEN /\ SetErrs(e1)
               /\ ipc' = ReturnTo(caller)
               /\ UNCHANGED <<force_calcs, recalc_forces>>
          ELSE IF InitialForceCalc(vv.reuse, recalc_forces)
          THEN \E e2 \in MayFail(e1, "force_calc") :
                  /\ SetErrs(e2)
                  /\ force_calcs' = force_calcs + 1
                  /\ recalc_forces' = FALSE
                  /\ ipc' = IF check_runtime_errors(e2) THEN ReturnTo(caller)
                            ELSE "vv_loop"
          ELSE /\ SetErrs(e1)
               /\ ipc' = "vv_loop"
               /\ UNCHANGED <<force_calcs, recalc_forces>>
    /\ UNCHANGED <<caller, calls, integ_switch, skin, skin_derived, ctrl_C,
                   set_py_interrupt, py, vv, acc, chunk_log, update_log, steps_begun,
                   step_ops, cfgVars, notInt>>

(* the loop condition and the first half of an iteration; a converged
   steepest descent leaves the loop at once *)
StepBegin ==
    /\ ipc = "vv_loop"
    /\ IF vv.step < vv.n_steps
       THEN /\ steps_begun' = steps_begun + 1
            /\ step_ops' = StepBeginOps(integ_switch, n_rigidbonds)
            /\ IF integ_switch = "STEEPEST_DESCENT"
               THEN \E converged \in BOOLEAN :
                       ipc' = IF converged THEN "vv_post" ELSE "vv_mid"
               ELSE ipc' = "vv_mid"
       ELSE /\ ipc' = "vv_post"
            /\ UNCHANGED <<steps_begun, step_ops>>
    /\ UNCHANGED <<caller, calls, integ_switch, skin, skin_derived, recalc_forces, ctrl_C,
                   set_py_interrupt, py, vv, acc, chunk_log, update_log, force_calcs,
                   cfgVars, runtime_errors, notInt>>

(* the middle of an iteration: constraints on the positions, the ghost
   update and the force calculation *)
StepForces ==
    /\ ipc = "vv_mid"
    /\ step_ops' = step_ops \cup StepForceOps(n_rigidbonds, n_part)
    /\ force_calcs' = force_calcs + 1
    /\ recalc_forces' = FALSE
    /\ \E e \in MayFail(IntErrs, "force_calc") : SetErrs(e)
    /\ ipc' = "vv_end"
    /\ UNCHANGED <<caller, calls, integ_switch, skin, skin_derived, ctrl_C,
                   set_py_interrupt, py, vv, acc, chunk_log, update_log, steps_begun,
                   cfgVars, notInt>>

(* the end of an iteration: the second half of the propagation, then the
   poll of the error queue, then the interrupt check *)
StepEnd ==
    /\ ipc = "vv_end"
    /\ step_ops' = step_ops \cup StepEndOps(integ_switch, n_rigidbonds)
    /\ IF check_runtime_errors(IntErrs)
       THEN /\ ipc' = "vv_post"
            /\ UNCHANGED <<ctrl_C, set_py_interrupt, vv>>
       ELSE IF ctrl_C = 1
       THEN /\ ctrl_C' = 0
            /\ set_py_interrupt' = TRUE
            /\ ipc' = "vv_post"
            /\ UNCHANGED vv
       ELSE /\ vv' = [vv EXCEPT !.step = vv.step + 1]
            /\ ipc' = "vv_loop"
            /\ UNCHANGED <<ctrl_C, set_py_interrupt>>
    /\ UNCHANGED <<caller, calls, integ_switch, skin, skin_derived, recalc_forces, py,
                   acc, chunk_log, update_log, force_calcs, steps_begun, cfgVars,
                   runtime_errors, notInt>>

(* integrate_vv after its loop *)
IntegrateEnd ==
    /\ ipc = "vv_post"
    /\ ipc' = ReturnTo(caller)
    /\ UNCHANGED <<caller, calls, integ_switch, skin, skin_derived, recalc_forces, ctrl_C,
                   set_py_interrupt, py, vv, acc, chunk_log, update_log, force_calcs,
                   steps_begun, step_ops, cfgVars, runtime_errors, notInt>>

Accumulators ==
    {[frequency |-> 0, counter |-> 0]}
    \cup {[frequency |-> f, counter |-> c] : f \in 1..MaxFreq, c \in 1..MaxFreq}

IntegrateInit ==
    /\ ExtraIdle
    /\ LayIdle
    /\ runtime_errors = [r \in {0} |-> {}]
    /\ ExchangeIdle
    /\ GhostIdle
    /\ TopoIdle
    /\ CellIdle
    /\ ipc = "idle"
    /\ caller = "none"
    /\ calls = 0
    /\ integ_switch \in {"NVT", "NPT_ISO"}
    /\ integ_switch_old = "NVT"
    /\ skin_set \in BOOLEAN
    /\ skin = 0
    /\ max_cut \in 0..MaxCut
    /\ min_cell_range = MaxCut
    /\ skin_derived = 0
    /\ recalc_forces \in BOOLEAN
    /\ n_rigidbonds \in {0, 1}
    /\ n_part \in {0, 1}
    /\ ctrl_C = 0
    /\ set_py_interrupt = FALSE
    /\ py = <<>>
    /\ vv = <<>>
    /\ acc \in {a \in Accumulators : a.counter <= a.frequency}
    /\ max_steps = 0
    /\ chunk_log = <<>>
    /\ update_log = <<>>
    /\ force_calcs = 0
    /\ steps_begun = 0
    /\ step_ops = {}

IntegrateNext ==
    \/ \E n \in -1..MaxSteps, rc, ru \in BOOLEAN : python_integrate(n, rc, ru)
    \/ PyLoop
    \/ PyAfter
    \/ Interrupt
    \/ \E ms \in 0..MaxSteps : minimize_energy(ms)
    \/ MinAfter
    \/ IntegrateStart
    \/ StepBegin
    \/ StepForces
    \/ StepEnd
    \/ IntegrateEnd

SpecIntegrate == IntegrateInit /\ [][IntegrateNext]_vars

(* ---------------- properties of the integration driver ---------------- *)

RECURSIVE SumSteps(_)
SumSteps(log) == IF log = <<>> THEN 0 ELSE log[1].steps + SumSteps(Tail(log))

(* the force mode the caller of python_integrate asked for *)
CallerMode(rc, ru) == IF rc THEN -1 ELSE IF ru THEN 1 ELSE 0

InPython == caller = "py"

Running == ipc # "idle"

DriverStep ==
    PyLoop \/ PyAfter \/ MinAfter \/ IntegrateStart \/ StepBegin \/ StepForces
    \/ StepEnd \/ IntegrateEnd

(* C7: a call of python_integrate that asks both to recalculate and to
   reuse the forces queues the error "cannot reuse old forces and
   recalculate forces", calculates no forces, begins no integration step,
   never blocks, and returns ES_ERROR. *)
C7_RecalcAndReuseRejected ==
    (InPython /\ py.recalc /\ py.reuse_par) =>
        /\ "cannot reuse old forces and recalculate forces" \in IntErrs
        /\ force_calcs = 0
        /\ steps_begun = 0
        /\ Running => ENABLED DriverStep
        /\ py.returned => py.ret = ES_ERROR

(* the call got as far as integrate_vv, which bailed out, and has returned *)
C7_Witness ==
    /\ InPython
    /\ py.recalc
    /\ py.reuse_par
    /\ py.n_steps = MaxSteps
    /\ chunk_log # <<>>
    /\ py.returned
    /\ py.ret = ES_ERROR

(* C8: python_integrate splits the run into chunks; no chunk reaches past
   the next accumulator update, every chunk of a run with n_steps > 0 has at
   least one step, the accumulators are advanced by each chunk before the
   next one starts, the first chunk runs with the force mode of the caller
   and every later one with reuse_forces = 1.  A call with n_steps >= 0
   that meets no error (no runtime error, and no interrupt pending or
   caught) returns ES_OK after exactly n_steps integration steps. *)
C8_ChunkedIntegration ==
    (InPython /\ py.n_steps >= 0) =>
        /\ \A k \in DOMAIN chunk_log :
              /\ chunk_log[k].steps <= chunk_log[k].next
              /\ py.n_steps > 0 => chunk_log[k].steps >= 1
              /\ chunk_log[k].reuse =
                    IF k = 1 THEN CallerMode(py.recalc, py.reuse_par) ELSE 1
        /\ Len(update_log) <= Len(chunk_log)
        /\ Len(chunk_log) <= Len(update_log) + 1
        /\ \A k \in DOMAIN update_log : update_log[k] = chunk_log[k].steps
        /\ Running => ENABLED DriverStep
        /\ (py.returned /\ IntErrs = {} /\ ~py.interrupted) =>
              /\ py.ret = ES_OK
              /\ steps_begun = py.n_steps
              /\ SumSteps(chunk_log) = py.n_steps
              /\ py.n_steps > 0 => Len(update_log) = Len(chunk_log)

(* a run of MaxSteps steps cut by an accumulator into several chunks *)
C8_Witness ==
    /\ InPython
    /\ py.returned
    /\ py.ret = ES_OK
    /\ ~py.interrupted
    /\ py.n_steps = MaxSteps
    /\ py.recalc
    /\ Len(chunk_log) >= 2
    /\ chunk_log[1].reuse = -1
    /\ chunk_log[2].reuse = 1
    /\ steps_begun = MaxSteps

(* C9 as claimed: an interrupt caught during the step loop is consumed only
   by the check at the end of a step, and the step that ends with the
   interrupt pending leaves the loop with ctrl_C reset to 0 and
   set_py_interrupt true. *)
C9_InterruptEndsLoop ==
    [][/\ (ctrl_C = 1 /\ ctrl_C' = 0) => ipc = "vv_end"
       /\ (ipc = "vv_end" /\ ipc' # "vv_end" /\ ctrl_C = 1) =>
             (ipc' = "vv_post" /\ ctrl_C' = 0 /\ set_py_interrupt')]_vars

SDSkipped ==
    {"propagate_vel", "propagate_pos", "propagate_vel_pos",
     "propagate_vel_finalize_p_inst", "p_inst_av", "lb_lbfluid_propagate",
     "lb_lbcoupling_propagate", "handle_collisions"}

SDConstraints == {"save_old_pos", "correct_pos_shake", "correct_vel_shake"}

(* C10 as claimed: in steepest-descent mode no iteration executes velocity
   propagation, NPT accumulation, constraint corrections, LB coupling or
   collision handling, whatever is configured. *)
C10_SteepestDescentSkipsAll ==
    integ_switch = "STEEPEST_DESCENT" =>
        step_ops \cap (SDSkipped \cup SDConstraints \cup {"lb_lbcoupling_activate"}) = {}

(* C10, amended: in steepest-descent mode no iteration executes velocity
   propagation, NPT accumulation, LB propagation or collision handling; an
   iteration that runs to its end has executed the rigid-bond corrections
   exactly when rigid bonds are configured and the LB coupling activation
   exactly when there are particles. *)
C10_SteepestDescentSkips ==
    integ_switch = "STEEPEST_DESCENT" =>
        /\ step_ops \cap SDSkipped = {}
        /\ "check_runtime_errors" \in step_ops =>
              /\ n_rigidbonds # 0 => SDConstraints \subseteq step_ops
              /\ n_rigidbonds = 0 => SDConstraints \cap step_ops = {}
              /\ "lb_lbcoupling_activate" \in step_ops <=> n_part > 0

(* a complete descent iteration with rigid bonds and particles *)
C10_Witness ==
    /\ integ_switch = "STEEPEST_DESCENT"
    /\ "check_runtime_errors" \in step_ops
    /\ n_rigidbonds = 1
    /\ n_part = 1
    /\ vv.step >= 1
    /\ "correct_vel_shake" \in step_ops

(***************************************************************************)
(* Steepest descent: one step over the local particles                     *)
(* (minimize_energy.cpp).  Forces, gamma and the displacement cap are      *)
(* integers; the build has EXTERNAL_FORCES and VIRTUAL_SITES and no        *)
(* ROTATION, so a particle carries its set of fixed axes and its virtual   *)
(* flag and no torque.                                                     *)
(***************************************************************************)
MaxSDParts == 2
MaxForce == 1
MaxGamma == 2
MaxDisp == 1
MaxFmax == 1

\* boost::algorithm::clamp(v, lo, hi): v < lo ? lo : hi < v ? hi : v
clamp(v, lo, hi) == IF v < lo THEN lo ELSE IF hi < v THEN hi ELSE v

SDIncrementNoClamp(par, f) == par.gamma * f

\* dp, the positional increment of one coordinate that moves
SDIncrement(par, f) ==
    clamp(par.gamma * f, -par.max_displacement, par.max_displacement)

DescentInit ==
    /\ CoreIdle /\ LateIdle
    /\ nptiso = <<>> /\ dp3m = <<>> /\ tune = <<>> /\ mmm2d = <<>>
    /\ bisect = <<>> /\ aff = <<>>
    /\ \E par \in [f_max : 1..MaxFmax, gamma : 1..MaxGamma,
                   max_displacement : -1..MaxDisp],
          n \in 0..MaxSDParts :
       \E parts \in [1..n -> [p : {[j \in 0..2 |-> 0]},
                              f : [0..2 -> -MaxForce..MaxForce],
                              fixed : SUBSET (0..2), is_virtual : BOOLEAN]] :
          descent = [params |-> par, parts |-> parts, old |-> parts,
                     resort |-> FALSE, steps |-> 0, ret |-> FALSE]

steepest_descent_step ==
    LET par == descent.params
        \* the two "if"s in the loop over j: neither fixed nor virtual
        Moves(p, j) == j \notin p.fixed /\ ~p.is_virtual
        \* f of one particle: the squared force over the coordinates that move
        Sq(p, j) == IF Moves(p, j) THEN p.f[j] * p.f[j] ELSE 0
        F(p) == Sq(p, 0) + Sq(p, 1) + Sq(p, 2)
        \* f_max starts at -std::numeric_limits<double>::max(), here -1
        f_max == IF \E i \in DOMAIN descent.parts :
                       \A k \in DOMAIN descent.parts :
                           F(descent.parts[k]) <= F(descent.parts[i])
                 THEN F(descent.parts[CHOOSE i \in DOMAIN descent.parts :
                          \A k \in DOMAIN descent.parts :
                              F(descent.parts[k]) <= F(descent.parts[i])])
                 ELSE -1
    IN  /\ descent # <<>>
        /\ descent.steps = 0
        /\ descent' = [descent EXCEPT
              !.parts = [i \in DOMAIN descent.parts |->
                  [descent.parts[i] EXCEPT !.p = [j \in 0..2 |->
                      IF Moves(descent.parts[i], j)
                      THEN @[j] + SDIncrement(par, descent.parts[i].f[j])
                      ELSE @[j]]]],
              \* set_resort_particles(Cells::RESORT_LOCAL)
              !.resort = TRUE,
              !.steps = 1,
              \* sqrt(f_max_global) < params->f_max: the root of a negative
              \* number is a NaN and compares false
              !.ret = (f_max >= 0 /\ par.f_max > 0 /\ f_max < par.f_max * par.f_max)]
        /\ UNCHANGED <<lateVars, layVars, runtime_errors, exVars, ghostVars, topoVars,
                       cell_query, intVars, nptiso, dp3m, tune, mmm2d, bisect, aff>>

SpecDescent == DescentInit /\ [][steepest_descent_step]_vars

\* C11: for max_displacement >= 0 one step changes every coordinate of every
\* particle by at most max_displacement (gamma * force, clamped to
\* [-max_displacement, max_displacement]) and leaves the coordinates of fixed axes
\* and of virtual particles where they were.
C11_StepBounded ==
    (descent # <<>> /\ descent.steps > 0 /\ descent.params.max_displacement >= 0) =>
        \A i \in DOMAIN descent.parts : \A j \in 0..2 :
            LET o == descent.old[i]
                dp == descent.parts[i].p[j] - o.p[j]
                gf == descent.params.gamma * o.f[j]
                md == descent.params.max_displacement
            IN  /\ Abs(dp) <= md
                /\ (j \in o.fixed \/ o.is_virtual) => dp = 0
                /\ (j \notin o.fixed /\ ~o.is_virtual) =>
                      dp = (IF gf > md THEN md ELSE IF gf < -md THEN -md ELSE gf)

C11_Witness ==
    /\ descent # <<>> /\ descent.steps > 0
    /\ descent.params.max_displacement = 1
    /\ descent.params.gamma = 2
    /\ Len(descent.parts) = 2
    /\ \E j \in 0..2 : descent.parts[1].p[j] = 1 /\ descent.old[1].f[j] = 1
    /\ \E j \in 0..2 : j \in descent.old[1].fixed /\ descent.old[1].f[j] # 0
    /\ descent.old[2].is_virtual /\ \E j \in 0..2 : descent.old[2].f[j] # 0

(***************************************************************************)
(* The NPT setter (integrate.cpp).  nptiso.s is the parameter block; the   *)
(* geometry is the set of rescaled directions.  The build has              *)
(* ELECTROSTATICS and DIPOLES.                                             *)
(***************************************************************************)
MaxPressure == 1
MaxPiston == 1
MaxNptCalls == 2

NptGeometryNoDefault(xdir, ydir, zdir) ==
    [geometry |-> {d \in {"x", "y", "z"} :
                      (d = "x" /\ xdir # 0) \/ (d = "y" /\ ydir # 0) \/ (d = "z" /\ zdir # 0)},
     dimension |-> (IF xdir # 0 THEN 1 ELSE 0) + (IF ydir # 0 THEN 1 ELSE 0)
                   + (IF zdir # 0 THEN 1 ELSE 0),
     non_const_dim |-> IF zdir # 0 THEN 2 ELSE IF ydir # 0 THEN 1
                       ELSE IF xdir # 0 THEN 0 ELSE -1]

\* geometry, dimension and non_const_dim as the "if (xdir || ydir || zdir)" and
\* its else branch set them
NptGeometry(xdir, ydir, zdir) ==
    IF xdir # 0 \/ ydir # 0 \/ zdir # 0
    THEN NptGeometryNoDefault(xdir, ydir, zdir)
    ELSE [geometry |-> {"x", "y", "z"}, dimension |-> 3, non_const_dim |-> 2]

NptInit ==
    /\ CoreIdle /\ LateIdle
    /\ descent = <<>> /\ dp3m = <<>> /\ tune = <<>> /\ mmm2d = <<>>
    /\ bisect = <<>> /\ aff = <<>>
    /\ \E pe \in 0..MaxPressure, pi \in 0..MaxPiston, cb \in 0..1,
          g \in {NptGeometry(0, 0, 0), NptGeometryNoDefault(0, 0, 0)},
          cp \in 0..1, dp \in 0..1 :
        LET s == [cubic_box |-> cb, p_ext |-> pe, piston |-> pi,
                  geometry |-> g.geometry, dimension |-> g.dimension,
                  non_const_dim |-> g.non_const_dim]
        IN  nptiso = [s |-> s, coulomb_prefactor |-> cp, dipole_prefactor |-> dp,
                      old |-> s, old_switch |-> "NVT", args |-> <<>>,
                      ret |-> ES_OK, bcast |-> {}, calls |-> 0]

integrate_set_npt_isotropic(ext_pressure, piston, xdir, ydir, zdir, cubic_box) ==
    LET g == NptGeometry(xdir, ydir, zdir)
        s1 == [nptiso.s EXCEPT !.cubic_box = 0, !.p_ext = ext_pressure,
                               !.piston = piston]
        s2 == [s1 EXCEPT !.geometry = g.geometry, !.dimension = g.dimension,
                         !.non_const_dim = g.non_const_dim,
                         !.cubic_box = IF cubic_box THEN 1 ELSE 0]
        Done(s, sw, r, errs, bc) ==
            /\ nptiso' = [nptiso EXCEPT !.s = s, !.old = nptiso.s,
                             !.old_switch = integ_switch,
                             !.args = <<ext_pressure, piston, xdir, ydir, zdir, cubic_box>>,
                             !.ret = r, !.bcast = bc, !.calls = @ + 1]
            /\ integ_switch' = sw
            /\ runtime_errors' = [runtime_errors EXCEPT ![0] = @ \cup errs]
    IN  /\ nptiso # <<>>
        /\ nptiso.calls < MaxNptCalls
        /\ IF piston <= 0
           THEN Done(s1, integ_switch, ES_ERROR, {"You must set <piston>"}, {})
           ELSE IF s2.dimension < 3 /\ s2.cubic_box = 0 /\ nptiso.coulomb_prefactor > 0
           THEN Done(s2, "NVT", ES_ERROR, {"electrostatics needs the cubic box npt"},
                     {"FIELD_INTEG_SWITCH"})
           ELSE IF s2.dimension < 3 /\ s2.cubic_box = 0 /\ nptiso.dipole_prefactor > 0
           THEN Done(s2, "NVT", ES_ERROR, {"magnetostatics needs the cubic box npt"},
                     {"FIELD_INTEG_SWITCH"})
           ELSE IF s2.dimension = 0 \/ s2.non_const_dim = -1
           THEN Done(s2, "NVT", ES_ERROR, {"You must enable at least one of x y z",
                                            "reverting to nvt"},
                     {"FIELD_INTEG_SWITCH"})
           ELSE Done(s2, "NPT_ISO", ES_OK, {},
                     {"FIELD_INTEG_SWITCH", "FIELD_NPTISO_PISTON", "FIELD_NPTISO_PEXT",
                      "nptiso_geom"})
        /\ UNCHANGED <<lateVars, layVars, exVars, ghostVars, topoVars, cell_query,
                       ipc, caller, calls, integ_switch_old, skin_set, skin, max_cut,
                       min_cell_range, skin_derived, recalc_forces, n_rigidbonds,
                       n_part, ctrl_C, set_py_interrupt, py, vv, acc, max_steps,
                       chunk_log, update_log, force_calcs, steps_begun, step_ops,
                       descent, dp3m, tune, mmm2d, bisect, aff>>

integrate_set_nvt ==
    /\ nptiso # <<>>
    /\ nptiso.calls < MaxNptCalls
    /\ integ_switch' = "NVT"
    /\ nptiso' = [nptiso EXCEPT !.old = nptiso.s, !.old_switch = integ_switch,
                     !.args = <<>>, !.ret = ES_OK,
                     !.bcast = {"FIELD_INTEG_SWITCH"}, !.calls = @ + 1]
    /\ UNCHANGED <<lateVars, layVars, runtime_errors, exVars, ghostVars, topoVars, cell_query,
                   ipc, caller, calls, integ_switch_old, skin_set, skin, max_cut,
                   min_cell_range, skin_derived, recalc_forces, n_rigidbonds,
                   n_part, ctrl_C, set_py_interrupt, py, vv, acc, max_steps,
                   chunk_log, update_log, force_calcs, steps_begun, step_ops,
                   descent, dp3m, tune, mmm2d, bisect, aff>>

NptNext ==
    \/ \E pe \in 0..MaxPressure, pi \in -1..MaxPiston, x \in 0..1, y \in 0..1,
          z \in 0..1, cb \in BOOLEAN :
          integrate_set_npt_isotropic(pe, pi, x, y, z, cb)
    \/ integrate_set_nvt

SpecNpt == NptInit /\ [][NptNext]_vars

\* C12: integrate_set_npt_isotropic called with a positive piston and
\* xdir = ydir = zdir = 0 returns an error and does not leave the integrator in
\* isotropic NPT.
C12_ZeroAxesRejected ==
    (nptiso # <<>> /\ nptiso.args # <<>> /\ nptiso.args[2] > 0
       /\ nptiso.args[3] = 0 /\ nptiso.args[4] = 0 /\ nptiso.args[5] = 0) =>
        (nptiso.ret = ES_ERROR /\ integ_switch # "NPT_ISO")

\* C12 as the code has it: with a positive piston and xdir = ydir = zdir = 0 the
\* setter takes the default of all three directions (dimension 3,
\* non_const_dim 2), returns ES_OK and switches the integrator to isotropic NPT.
C12_ZeroAxesDefault ==
    (nptiso # <<>> /\ nptiso.args # <<>> /\ nptiso.args[2] > 0
       /\ nptiso.args[3] = 0 /\ nptiso.args[4] = 0 /\ nptiso.args[5] = 0) =>
        /\ nptiso.ret = ES_OK
        /\ integ_switch = "NPT_ISO"
        /\ nptiso.s.geometry = {"x", "y", "z"}
        /\ nptiso.s.dimension = 3
        /\ nptiso.s.non_const_dim = 2

C12_Witness ==
    /\ nptiso # <<>> /\ nptiso.args = <<1, 1, 0, 0, 0, FALSE>>
    /\ nptiso.old_switch = "NVT"
    /\ nptiso.old.dimension = 0
    /\ nptiso.coulomb_prefactor > 0
    /\ integ_switch = "NPT_ISO"

\* C13: a call with piston <= 0 returns ES_ERROR and leaves p_ext, piston,
\* cubic_box, geometry and dimension of the NPT block and the integrator mode as
\* they were before the call.
C13_PistonErrorMutatesNothing ==
    (nptiso # <<>> /\ nptiso.args # <<>> /\ nptiso.args[2] <= 0) =>
        /\ nptiso.ret = ES_ERROR
        /\ nptiso.s.p_ext = nptiso.old.p_ext
        /\ nptiso.s.piston = nptiso.old.piston
        /\ nptiso.s.cubic_box = nptiso.old.cubic_box
        /\ nptiso.s.geometry = nptiso.old.geometry
        /\ nptiso.s.dimension = nptiso.old.dimension
        /\ integ_switch = nptiso.old_switch

(***************************************************************************)
(* The direct setter of the dipolar P3M parameters (p3m-dipolar).  r_cut,  *)
(* alpha and accuracy are integers; r_cut_iL = r_cut / box_l is kept as    *)
(* the pair <<r_cut, box_l>> and alpha_L = alpha * box_l as an integer.    *)
(***************************************************************************)
MaxRcut == 1
MaxMesh == 2
MaxAlpha == 1
MaxAccuracy == 1
MaxBoxL == 2
MaxP3mCalls == 2

Dp3mInit ==
    /\ CoreIdle /\ LateIdle
    /\ descent = <<>> /\ nptiso = <<>> /\ tune = <<>> /\ mmm2d = <<>>
    /\ bisect = <<>> /\ aff = <<>>
    /\ \E meth \in {"DIPOLAR_NONE", "DIPOLAR_P3M", "DIPOLAR_MDLC_P3M"},
          L \in 1..MaxBoxL :
        LET s == [r_cut |-> 0, r_cut_iL |-> <<0, L>>, mesh |-> <<0, 0, 0>>, cao |-> 0,
                  alpha |-> 0, alpha_L |-> 0, accuracy |-> 0]
        IN  dp3m = [params |-> s, method |-> meth, box_l |-> L, old |-> s,
                    args |-> <<>>, ret |-> 0, bcast |-> 0, old_bcast |-> 0,
                    calls |-> 0]

dp3m_set_params(r_cut, mesh, cao, alpha, accuracy) ==
    LET meth == IF dp3m.method \notin {"DIPOLAR_P3M", "DIPOLAR_MDLC_P3M"}
                THEN "DIPOLAR_P3M" ELSE dp3m.method
        s0 == dp3m.params
        s1 == [s0 EXCEPT !.r_cut = r_cut, !.r_cut_iL = <<r_cut, dp3m.box_l>>,
                         !.mesh = <<mesh, mesh, mesh>>, !.cao = cao]
        s2 == IF alpha > 0
              THEN [s1 EXCEPT !.alpha = alpha, !.alpha_L = alpha * dp3m.box_l]
              ELSE s1
        s3 == IF accuracy >= 0 THEN [s2 EXCEPT !.accuracy = accuracy] ELSE s2
        Done(s, r, bc) ==
            dp3m' = [dp3m EXCEPT !.params = s, !.method = meth, !.old = s0,
                        !.args = <<r_cut, mesh, cao, alpha, accuracy>>, !.ret = r,
                        !.old_bcast = dp3m.bcast, !.bcast = @ + bc, !.calls = @ + 1]
    IN  /\ dp3m # <<>>
        /\ dp3m.calls < MaxP3mCalls
        /\ IF r_cut < 0 THEN Done(s0, -1, 0)
           ELSE IF mesh < 0 THEN Done(s0, -2, 0)
           ELSE IF cao < 1 \/ cao > 7 \/ cao > mesh THEN Done(s0, -3, 0)
           ELSE IF alpha <= 0 /\ alpha # -1 THEN Done(s1, -4, 0)
           ELSE IF accuracy < 0 /\ accuracy # -1 THEN Done(s2, -5, 0)
           ELSE Done(s3, 0, 1)
        /\ UNCHANGED <<lateVars, layVars, runtime_errors, exVars, ghostVars, topoVars,
                       cell_query, intVars, descent, nptiso, tune, mmm2d, bisect, aff>>

Dp3mNext ==
    \E r_cut \in -1..MaxRcut, mesh \in -1..MaxMesh, cao \in (0..(MaxMesh + 1)) \cup {8},
       alpha \in -2..MaxAlpha, accuracy \in -2..MaxAccuracy :
        dp3m_set_params(r_cut, mesh, cao, alpha, accuracy)

SpecDp3mParams == Dp3mInit /\ [][Dp3mNext]_vars

\* C14: whenever dp3m_set_params returns a negative code, r_cut, r_cut_iL, mesh,
\* cao, alpha, alpha_L and accuracy of the parameter block are what they were
\* before the call and nothing is broadcast.
C14_RejectedNotCommitted ==
    (dp3m # <<>> /\ dp3m.calls > 0 /\ dp3m.ret < 0) =>
        (dp3m.params = dp3m.old /\ dp3m.bcast = dp3m.old_bcast)

(***************************************************************************)
(* MMM2D_init (mmm2d).  The cutoff searches of MMM2D_tune_near and         *)
(* MMM2D_tune_far are functions of the box and of maxPWerror; their        *)
(* outcome is fixed with the configuration (near, far) and is one of the   *)
(* codes the function can return.                                          *)
(***************************************************************************)
MaxTotalLayers == 4

Mmm2dInit ==
    /\ CoreIdle /\ LateIdle
    /\ descent = <<>> /\ nptiso = <<>> /\ dp3m = <<>> /\ tune = <<>>
    /\ bisect = <<>> /\ aff = <<>>
    /\ \E ct \in {"NSQUARE", "LAYERED", "DOMDEC"}, tl \in 1..MaxTotalLayers,
          per \in BOOLEAN, vl \in BOOLEAN, dc \in BOOLEAN, fc \in 0..1,
          near \in {"ok", "ERROR_LARGE", "ERROR_SMALL", "ERROR_BOXL", "ERROR_BESSEL",
                    "ERROR_POLY"},
          far \in {"ok", "ERROR_FARC"} :
        mmm2d = [cell_type |-> ct, total_layers |-> tl, periodic_110 |-> per,
                 use_verlet_list |-> vl, dielectric_contrast_on |-> dc,
                 far_calculated |-> fc, far_cut |-> 1, near |-> near, far |-> far,
                 coulomb_method |-> "COULOMB_MMM2D", pc |-> "start", reported |-> {}]

\* the first failing check of MMM2D_sanity_checks, "ok" if none fails
MMM2D_sanity_checks ==
    IF ~mmm2d.periodic_110 THEN "MMM2D requires periodicity 1 1 0"
    ELSE IF mmm2d.cell_type \notin {"LAYERED", "NSQUARE"}
    THEN "MMM2D at present requires layered (or n-square) cellsystem"
    ELSE IF mmm2d.use_verlet_list
    THEN "MMM2D at present does not work with verlet lists"
    ELSE "ok"

MMM2D_init ==
    LET Done(meth, fcut, errs) ==
            /\ mmm2d' = [mmm2d EXCEPT !.coulomb_method = meth, !.far_cut = fcut,
                            !.pc = "returned", !.reported = errs]
            /\ runtime_errors' = [runtime_errors EXCEPT ![0] = @ \cup errs]
    IN  /\ mmm2d # <<>>
        /\ mmm2d.pc = "start"
        /\ IF MMM2D_sanity_checks # "ok"
           THEN Done(mmm2d.coulomb_method, mmm2d.far_cut, {MMM2D_sanity_checks})
           ELSE IF mmm2d.near # "ok"
           THEN Done("COULOMB_NONE", mmm2d.far_cut, {mmm2d.near})
           ELSE IF mmm2d.cell_type = "NSQUARE"
                   \/ (mmm2d.cell_type = "LAYERED" /\ mmm2d.total_layers < 3)
           THEN Done(mmm2d.coulomb_method, 0,
                     IF mmm2d.dielectric_contrast_on
                     THEN {"IC requires layered cellsystem with > 3 layers"} ELSE {})
           ELSE IF mmm2d.far_calculated # 0 /\ mmm2d.far # "ok"
           \* MMM2D_tune_far leaves the cutoff it stopped at
           THEN Done("COULOMB_NONE", 2, {mmm2d.far})
           ELSE Done(mmm2d.coulomb_method, mmm2d.far_cut, {})
        /\ UNCHANGED <<lateVars, layVars, exVars, ghostVars, topoVars, cell_query, intVars,
                       descent, nptiso, dp3m, tune, bisect, aff>>

SpecMmm2d == Mmm2dInit /\ [][MMM2D_init]_vars

\* C15: when MMM2D_init returns after the near-formula tuning failed, the far
\* cutoff tuning failed, or dielectric contrast is on while the far formula is
\* unavailable (n-square cell system or fewer than 3 layers in total), a runtime
\* error has been queued and coulomb.method is none.
C15_InfeasibleDisables ==
    (mmm2d # <<>> /\ mmm2d.pc = "returned" /\ MMM2D_sanity_checks = "ok"
       /\ \/ mmm2d.near # "ok"
          \/ /\ mmm2d.dielectric_contrast_on
             /\ (mmm2d.cell_type = "NSQUARE" \/ mmm2d.total_layers < 3)
          \/ /\ mmm2d.cell_type = "LAYERED" /\ mmm2d.total_layers >= 3
             /\ mmm2d.far_calculated # 0 /\ mmm2d.far # "ok") =>
        (mmm2d.reported # {} /\ runtime_errors[0] # {}
           /\ mmm2d.coulomb_method = "COULOMB_NONE")

(***************************************************************************)
(* dp3m_adaptive_tune (p3m-dipolar), one step per timed trial.  A trial    *)
(* dp3m_mc_time(mesh, cao) ends in one of its return codes or in a time;   *)
(* the error estimates and time_force_calc are outside the model, so the   *)
(* outcome is an input of the step, except that cao >= mesh is always      *)
(* "cao too large".  The cutoff and the alpha the bisection finds for      *)
(* (mesh, cao) are the stand-ins 10 * mesh + cao and 100 + 10 * mesh +     *)
(* cao; the box length is 1.  A trial returns a negated P3M_TUNE_ code, -1 *)
(* for a failed test integration; of the other codes the model uses only   *)
(* that they are negative, distinct and not -1.                            *)
(***************************************************************************)
MaxDip == 8
MaxTime == 2
P3M_MAX_MESH == 4

P3M_TUNE_FAIL == 1
P3M_TUNE_CAO_TOO_LARGE == 4
P3M_TUNE_CUTOFF_TOO_LARGE == 16
P3M_TUNE_ACCURACY_TOO_LARGE == 32
P3M_TIME_GRAN == 2
TimeNone == 1000        \* time_best = 1e20: no mesh has been timed yet

TuneInit ==
    /\ CoreIdle /\ LateIdle
    /\ descent = <<>> /\ nptiso = <<>> /\ mmm2d = <<>> /\ bisect = <<>> /\ aff = <<>>
    /\ \E meth \in {"DIPOLAR_NONE", "DIPOLAR_P3M", "DIPOLAR_MDLC_P3M"},
          n \in {0, 1, MaxDip}, m0 \in {0, 3}, c0 \in 0..2 :
        LET s == [r_cut |-> 0, r_cut_iL |-> <<0, 1>>, mesh |-> <<m0, m0, m0>>,
                  cao |-> c0, alpha |-> 0, alpha_L |-> 0, accuracy |-> 1]
        IN  /\ dp3m = [params |-> s, method |-> meth, box_l |-> 1, old |-> s,
                       args |-> <<>>, ret |-> 0, bcast |-> 0, old_bcast |-> 0,
                       calls |-> 0]
            /\ tune = [pc |-> "start", sum_dip_part |-> n, old_method |-> meth,
                       tmp_mesh |-> 0, mesh_max |-> 0, cao_min |-> 0, cao_max |-> 0,
                       cao |-> -1, mesh |-> -1, time_best |-> TimeNone, ret |-> ES_OK,
                       m_cao |-> 0, final_dir |-> 0, best_time |-> -1, tmp_cao |-> 0,
                       dir0 |-> 0, dir2 |-> 0, timed |-> 0]

\* the head of the mesh loop and what follows the loop: the next dp3m_m_time
\* starts at its first trial, or the tuned parameters are set
TuneMeshLoop(t) ==
    IF t.tmp_mesh <= t.mesh_max
    THEN [t EXCEPT !.pc = "initial", !.tmp_cao = t.cao, !.m_cao = t.cao,
                   !.final_dir = 0, !.best_time = -1, !.dir0 = 0, !.dir2 = 0]
    ELSE [t EXCEPT !.pc = "done",
                   !.ret = IF t.time_best = TimeNone THEN ES_ERROR ELSE ES_OK]

\* the body of the mesh loop after dp3m_m_time has returned time
TuneAfterMTime(t, time) ==
    IF time = -1 THEN [t EXCEPT !.pc = "done", !.ret = ES_ERROR]
    ELSE IF time < 0 THEN TuneMeshLoop([t EXCEPT !.tmp_mesh = @ + 2])
    ELSE IF time < t.time_best
    THEN TuneMeshLoop([t EXCEPT !.time_best = time, !.mesh = t.tmp_mesh,
                                !.cao = t.tmp_cao, !.tmp_mesh = @ + 2])
    ELSE IF time > t.time_best + P3M_TIME_GRAN
    THEN [t EXCEPT !.pc = "done", !.ret = ES_OK]
    ELSE TuneMeshLoop([t EXCEPT !.tmp_mesh = @ + 2])

\* the parameter block when dp3m_adaptive_tune has returned in state t
TuneParams(t, d) ==
    IF t.pc = "done" /\ t.ret = ES_OK /\ t.time_best # TimeNone
    THEN [d EXCEPT !.params.r_cut_iL = <<10 * t.mesh + t.cao, 1>>,
                   !.params.mesh = <<t.mesh, t.mesh, t.mesh>>,
                   !.params.cao = t.cao,
                   !.params.alpha_L = 100 + 10 * t.mesh + t.cao,
                   !.params.accuracy = 1,
                   !.params.r_cut = 10 * t.mesh + t.cao,
                   !.params.alpha = 100 + 10 * t.mesh + t.cao,
                   !.bcast = @ + 1]
    ELSE d

\* dp3m_mcr_time up to the test integration: the candidate is written into
\* dp3m.params, scaled and broadcast
dp3m_mcr_time(d, mesh, cao) ==
    [d EXCEPT !.method = IF @ \notin {"DIPOLAR_P3M", "DIPOLAR_MDLC_P3M"}
                         THEN "DIPOLAR_P3M" ELSE @,
              !.params.r_cut_iL = <<10 * mesh + cao, 1>>,
              !.params.mesh = <<mesh, mesh, mesh>>,
              !.params.cao = cao,
              !.params.alpha_L = 100 + 10 * mesh + cao,
              !.params.r_cut = 10 * mesh + cao,
              !.params.alpha = 100 + 10 * mesh + cao,
              !.bcast = @ + 1]

\* the call up to the first timed trial
dp3m_adaptive_tune ==
    /\ tune # <<>>
    /\ tune.pc = "start"
    /\ LET p == dp3m.params
           start == IF tune.sum_dip_part >= 8 THEN 2 ELSE 1
           t1 == [tune EXCEPT
                    !.tmp_mesh = IF p.mesh[1] = 0 THEN start ELSE p.mesh[1],
                    !.mesh_max = IF p.mesh[1] = 0
                                 THEN Min(start * 256, P3M_MAX_MESH) ELSE p.mesh[1],
                    !.cao_min = IF p.cao = 0 THEN 1 ELSE p.cao,
                    !.cao_max = IF p.cao = 0 THEN 7 ELSE p.cao,
                    !.cao = IF p.cao = 0 THEN 3 ELSE p.cao]
           t2 == IF tune.sum_dip_part = 0
                 THEN [tune EXCEPT !.pc = "done", !.ret = ES_ERROR]
                 ELSE TuneMeshLoop(t1)
       IN  /\ tune' = t2
           /\ dp3m' = TuneParams(t2, dp3m)
    /\ UNCHANGED <<lateVars, layVars, runtime_errors, exVars, ghostVars, topoVars, cell_query,
                   intVars, descent, nptiso, mmm2d, bisect, aff>>

\* one trial dp3m_mc_time(tmp_mesh, cao) of dp3m_m_time with outcome out, and
\* the code up to the next trial or to the return of dp3m_adaptive_tune
dp3m_m_time(out) ==
    /\ tune # <<>>
    /\ tune.pc \in {"initial", "direction", "walk"}
    /\ LET t == tune
           dir == IF t.pc = "direction" THEN t.final_dir ELSE 0
           cao == t.m_cao + dir
           ran == out >= 0 \/ out = -P3M_TUNE_FAIL
           Better(x) == IF out >= 0 /\ out < x.best_time
                        THEN [x EXCEPT !.best_time = out, !.tmp_cao = cao] ELSE x
           \* the for loop over cao: its condition, then the next trial
           Walk(x) == IF x.m_cao >= x.cao_min /\ x.m_cao <= x.cao_max
                      THEN [x EXCEPT !.pc = "walk"]
                      ELSE TuneAfterMTime(x, x.best_time)
           Initial ==
               IF out = -P3M_TUNE_FAIL \/ out = -P3M_TUNE_CAO_TOO_LARGE
               THEN TuneAfterMTime(t, out)
               ELSE IF out >= 0
               THEN LET x == [t EXCEPT !.best_time = out, !.tmp_cao = cao]
                        fd == IF cao = t.cao_min THEN 1
                              ELSE IF cao = t.cao_max THEN -1 ELSE t.final_dir
                    IN  IF fd = 0
                        THEN [x EXCEPT !.pc = "direction", !.final_dir = -1]
                        ELSE Walk([x EXCEPT !.final_dir = fd, !.m_cao = cao + fd])
               ELSE IF cao + 1 <= t.cao_max
               THEN [t EXCEPT !.m_cao = cao + 1, !.final_dir = 1]
               ELSE TuneAfterMTime(t, -P3M_TUNE_CAO_TOO_LARGE)
           Direction ==
               IF out = -P3M_TUNE_FAIL THEN TuneAfterMTime(t, out)
               ELSE IF dir = -1
               THEN [Better(t) EXCEPT !.dir0 = out, !.final_dir = 1]
               ELSE LET x == [Better(t) EXCEPT !.dir2 = out]
                        d0 == x.dir0
                        d2 == out
                        b == x.best_time
                        fd == IF d0 = b THEN -1
                              ELSE IF d2 = b THEN 1
                              ELSE IF (d0 >= 0 /\ d0 < b + P3M_TIME_GRAN)
                                      /\ (d2 < 0 \/ d2 > d0) THEN -1
                              ELSE IF (d2 >= 0 /\ d2 < b + P3M_TIME_GRAN)
                                      /\ (d0 < 0 \/ d0 > d2) THEN 1
                              ELSE 0
                    IN  IF fd = 0 THEN TuneAfterMTime(x, b)
                        ELSE Walk([x EXCEPT !.final_dir = fd,
                                            !.m_cao = t.m_cao + 2 * fd])
           WalkStep ==
               IF out = -P3M_TUNE_FAIL THEN TuneAfterMTime(t, out)
               ELSE IF out < 0 THEN TuneAfterMTime(t, t.best_time)
               ELSE IF out < t.best_time
               THEN Walk([Better(t) EXCEPT !.m_cao = cao + t.final_dir])
               ELSE IF out > t.best_time + P3M_TIME_GRAN
               THEN TuneAfterMTime(t, t.best_time)
               ELSE Walk([t EXCEPT !.m_cao = cao + t.final_dir])
           t2 == IF t.pc = "initial" THEN Initial
                 ELSE IF t.pc = "direction" THEN Direction ELSE WalkStep
           t3 == [t2 EXCEPT !.timed = IF ran THEN 1 ELSE @]
       IN  /\ cao >= t.tmp_mesh => out = -P3M_TUNE_CAO_TOO_LARGE
           /\ tune' = t3
           /\ dp3m' = TuneParams(t3, IF ran THEN dp3m_mcr_time(dp3m, t.tmp_mesh, cao)
                                     ELSE dp3m)
    /\ UNCHANGED <<lateVars, layVars, runtime_errors, exVars, ghostVars, topoVars, cell_query,
                   intVars, descent, nptiso, mmm2d, bisect, aff>>

TuneNext ==
    \/ dp3m_adaptive_tune
    \/ \E out \in {-P3M_TUNE_FAIL, -P3M_TUNE_ACCURACY_TOO_LARGE,
                   -P3M_TUNE_CAO_TOO_LARGE, -P3M_TUNE_CUTOFF_TOO_LARGE}
                  \cup (0..MaxTime) : dp3m_m_time(out)

SpecDp3mTune == TuneInit /\ [][TuneNext]_vars

\* C16: when dp3m_adaptive_tune has returned ES_ERROR, the parameter block
\* (r_cut_iL, r_cut, mesh, cao, alpha_L, alpha, accuracy) and dipole.method are
\* what they were before the call.
C16_FailureRestores ==
    (tune # <<>> /\ tune.pc = "done" /\ tune.ret = ES_ERROR) =>
        (dp3m.params = dp3m.old /\ dp3m.method = tune.old_method)

(***************************************************************************)
(* dp3m_rtbisection (p3m-dipolar).  The function whose root is sought,     *)
(* P3M_DIPOLAR_real_space_error - constant, enters by its sign only: on    *)
(* [x1, x2] it is sigma * sign(u - n/q) at the relative position u, with   *)
(* sigma = 0 for the zero function and n = -1 or n = q + 1 for a root      *)
(* outside the interval.  halvings is the first j with                     *)
(* |x2 - x1| / 2^j < xacc.                                                 *)
(***************************************************************************)
MaxDen == 5
MaxHalvings == 3
JJ_RTBIS_MAX == 40

BisectInit ==
    /\ CoreIdle /\ LateIdle
    /\ descent = <<>> /\ nptiso = <<>> /\ dp3m = <<>> /\ tune = <<>>
    /\ mmm2d = <<>> /\ aff = <<>>
    /\ \E sigma \in -1..1, q \in 1..MaxDen,
          h \in (1..MaxHalvings) \cup {JJ_RTBIS_MAX + 1} :
       \E n \in -1..(q + 1) :
          LET sgn(x) == IF x < 0 THEN -1 ELSE IF x > 0 THEN 1 ELSE 0
          IN  bisect = [sigma |-> sigma, n |-> n, q |-> q, halvings |-> h,
                        f |-> sigma * sgn(-n), fmid |-> sigma * sgn(q - n),
                        pc |-> "call", printed |-> {}, ret |-> "none", rtb |-> "none",
                        j |-> 0]

\* the for loop from step j on: s and n are the function relative to the
\* interval [rtb, rtb + dx], at is x1 or x2 while rtb has not moved
RECURSIVE RtbisLoop(_, _, _, _, _, _)
RtbisLoop(j, s, n, q, h, at) ==
    LET fmid == s * (IF q - 2 * n < 0 THEN -1 ELSE IF q - 2 * n > 0 THEN 1 ELSE 0)
        at2 == IF fmid <= 0 THEN "inside" ELSE at
        raw == IF fmid <= 0 THEN 2 * n - q ELSE 2 * n
        n2 == IF raw < 0 THEN -1 ELSE IF raw > q THEN q + 1 ELSE raw
    IN  IF j > JJ_RTBIS_MAX
        THEN [ret |-> "sentinel", rtb |-> "none", j |-> JJ_RTBIS_MAX,
              printed |-> {"Too many bisections"}]
        ELSE IF j >= h \/ fmid = 0
        THEN [ret |-> "rtb", rtb |-> at2, j |-> j, printed |-> {}]
        ELSE RtbisLoop(j + 1, s, n2, q, h, at2)

dp3m_rtbisection ==
    /\ bisect # <<>>
    /\ bisect.pc = "call"
    /\ LET b == bisect
           r == IF b.f < 0
                THEN RtbisLoop(1, b.sigma, b.n, b.q, b.halvings, "x1")
                ELSE RtbisLoop(1, -b.sigma, b.q - b.n, b.q, b.halvings, "x2")
       IN  bisect' = [b EXCEPT !.pc = "returned", !.ret = r.ret, !.rtb = r.rtb,
                         !.j = r.j,
                         !.printed = r.printed \cup
                             (IF b.f * b.fmid >= 0
                              THEN {"Root must be bracketed"} ELSE {})]
    /\ UNCHANGED <<lateVars, layVars, runtime_errors, exVars, ghostVars, topoVars, cell_query,
                   intVars, descent, nptiso, dp3m, tune, mmm2d, aff>>

SpecBisection == BisectInit /\ [][dp3m_rtbisection]_vars

\* C17: dp3m_rtbisection returns the sentinel whenever the function has the same
\* sign, or is zero, at both ends; otherwise it takes at most 40 steps and
\* returns the sentinel exactly when the interval has not shrunk below xacc (and
\* no zero was hit) by then.
C17_UnbracketedSentinel ==
    (bisect # <<>> /\ bisect.pc = "returned") =>
        /\ bisect.f * bisect.fmid >= 0 => bisect.ret = "sentinel"
        /\ bisect.f * bisect.fmid < 0 =>
              /\ bisect.j <= JJ_RTBIS_MAX
              /\ bisect.ret = "sentinel" => bisect.halvings > JJ_RTBIS_MAX

(***************************************************************************)
(* The affinity pair force (affinity), all six variants.  Positions are    *)
(* integer 3-vectors that differ along x only; lengths are compared by     *)
(* their squares.  d and dist = |d| are arguments of the call; the two     *)
(* random draws enter as the truth of decide < Pon and decide < Poff.      *)
(* The contribution to force is kept by kind: "none" (no +=), "zero",      *)
(* "pull" (fac > 0, along vec) or "nan" (0/0 at len = 0).                  *)
(***************************************************************************)
MaxAffType == 7
BoxA == 4
MaxD == 3
MaxR0 == 2
MaxEvals == 2

\* "Checking whether any bond exists"
AffBonded(site) == site[1] >= 0 /\ site[2] >= 0 /\ site[3] >= 0

AffCreatesRandom(v, pon) == pon

\* the creation decision in range: variant 1 creates always, the others with
\* decide < Pon
AffCreates(v, pon) == v = 1 \/ pon

\* the rupture decision of a maintained bond of squared length len2
AffRuptures(v, ia, len2, poff) ==
    IF v = 1 THEN len2 > ia.maxBond * ia.maxBond
    ELSE IF v = 3 THEN (IF len2 < ia.maxBond * ia.maxBond THEN poff ELSE TRUE)
    ELSE (IF 25 * len2 < 16 * ia.cut * ia.cut THEN poff ELSE TRUE)

AffInRangeNoCutoff(ia, dist2) == dist2 > 0

\* "Checking whether I am inside the interaction cut-off radius", and dist > 0
AffInRange(ia, dist2) == dist2 < ia.cut * ia.cut /\ dist2 > 0

AffInit ==
    /\ CoreIdle /\ LateIdle
    /\ descent = <<>> /\ nptiso = <<>> /\ dp3m = <<>> /\ tune = <<>>
    /\ mmm2d = <<>> /\ bisect = <<>>
    /\ \E type \in (1..MaxAffType) \cup {10, 12, 17}, r0 \in 1..MaxR0, mb \in 1..MaxR0,
          cut \in 2..(MaxR0 + 1), x \in 0..(BoxA - 1), i \in -1..0 :
        aff = [ia |-> [type |-> type, kappa |-> 1, r0 |-> r0, maxBond |-> mb,
                       cut |-> cut],
               p |-> <<x, 1, 1>>, i |-> <<i, 0, 0>>, bond_site |-> <<-1, -1, -1>>,
               evals |-> 0, branch |-> "none", force |-> "none", d |-> <<0, 0, 0>>,
               upos |-> <<0, 0, 0>>, before |-> <<-1, -1, -1>>, len2 |-> 0,
               pon |-> FALSE, poff |-> FALSE]

add_affinity_pair_force(dx, pon, poff) ==
    /\ aff # <<>>
    /\ aff.evals < MaxEvals
    /\ LET ia == aff.ia
           v == IF ia.type > 10 THEN ia.type % 10 ELSE ia.type
           d == <<dx, 0, 0>>
           dist2 == dx * dx
           unfolded_pos == [k \in 1..3 |-> aff.p[k] + aff.i[k] * BoxA]
           vec == [k \in 1..3 |-> aff.bond_site[k] - unfolded_pos[k]]
           len2 == vec[1] * vec[1] + vec[2] * vec[2] + vec[3] * vec[3]
           \* fac > 0
           stretched == IF v = 4 THEN len2 > 0
                        ELSE IF v = 5 THEN 16 * len2 > 9 * ia.r0 * ia.r0
                        ELSE len2 > ia.r0 * ia.r0
           force == IF stretched THEN "pull"
                    ELSE IF len2 = 0 /\ v # 3 THEN "nan" ELSE "zero"
           Done(br, site, f) ==
               aff' = [aff EXCEPT !.bond_site = site, !.evals = @ + 1, !.branch = br,
                          !.force = f, !.d = d, !.upos = unfolded_pos,
                          !.before = aff.bond_site, !.len2 = len2, !.pon = pon,
                          !.poff = poff]
       IN  IF v \notin 1..6 THEN Done("off", aff.bond_site, "none")
           ELSE IF ~AffInRange(ia, dist2)
           THEN Done("outside", aff.bond_site, "none")
           ELSE IF AffBonded(aff.bond_site)
           THEN Done("exists",
                     IF AffRuptures(v, ia, len2, poff) THEN <<-1, -1, -1>>
                     ELSE aff.bond_site,
                     force)
           ELSE IF dist2 < ia.r0 * ia.r0
           THEN (IF AffCreates(v, pon)
                 THEN Done("created", [k \in 1..3 |-> unfolded_pos[k] - d[k]], "none")
                 ELSE Done("declined", aff.bond_site, "none"))
           ELSE Done("far", aff.bond_site, "none")
    /\ UNCHANGED <<lateVars, layVars, runtime_errors, exVars, ghostVars, topoVars, cell_query,
                   intVars, descent, nptiso, dp3m, tune, mmm2d, bisect>>

\* between two force evaluations the particle is moved (integration step or a
\* direct position edit)
AffMove(x, i) ==
    /\ aff # <<>>
    /\ aff.evals \in 1..(MaxEvals - 1)
    /\ <<x, i>> # <<aff.p[1], aff.i[1]>>
    /\ aff' = [aff EXCEPT !.p[1] = x, !.i[1] = i]
    /\ UNCHANGED <<lateVars, layVars, runtime_errors, exVars, ghostVars, topoVars, cell_query,
                   intVars, descent, nptiso, dp3m, tune, mmm2d, bisect>>

AffNext ==
    \/ \E dx \in -MaxD..MaxD, pon \in BOOLEAN, poff \in BOOLEAN :
          add_affinity_pair_force(dx, pon, poff)
    \/ \E x \in 0..(BoxA - 1), i \in -1..0 : AffMove(x, i)

SpecAffinity == AffInit /\ [][AffNext]_vars

\* C18: variant 1, an unbonded particle evaluated with 0 < dist < cut and
\* dist < r0: the bond is created, the recorded bond-site is the partner's
\* unfolded position minus d (the partner being at unfolded_pos - d or at
\* unfolded_pos + d, whichever way d points), and no force is added.
C18_SiteIsPartnerMinusD ==
    (aff # <<>> /\ aff.evals > 0 /\ aff.ia.type = 1 /\ aff.before = <<-1, -1, -1>>
       /\ aff.d[1] # 0 /\ aff.d[1] * aff.d[1] < aff.ia.cut * aff.ia.cut
       /\ aff.d[1] * aff.d[1] < aff.ia.r0 * aff.ia.r0) =>
        /\ aff.branch = "created"
        /\ \E c \in {-1, 1} :
              aff.bond_site = [k \in 1..3 |-> (aff.upos[k] - c * aff.d[k]) - aff.d[k]]
        /\ aff.force = "none"

\* C18 as the code has it: in that evaluation the bond is created whatever the
\* random draw, the recorded bond-site is the particle's own unfolded position
\* minus d, and no force is added.
C18_SiteIsOwnMinusD ==
    (aff # <<>> /\ aff.evals > 0 /\ aff.ia.type = 1 /\ aff.before = <<-1, -1, -1>>
       /\ aff.d[1] # 0 /\ aff.d[1] * aff.d[1] < aff.ia.cut * aff.ia.cut
       /\ aff.d[1] * aff.d[1] < aff.ia.r0 * aff.ia.r0) =>
        /\ aff.branch = "created"
        /\ aff.bond_site = [k \in 1..3 |-> aff.upos[k] - aff.d[k]]
        /\ aff.force = "none"

C18_Witness ==
    /\ aff # <<>> /\ aff.evals = 1 /\ aff.ia.type = 1
    /\ aff.before = <<-1, -1, -1>> /\ aff.d = <<1, 0, 0>> /\ aff.ia.r0 = 2
    /\ ~aff.pon
    /\ aff.upos = <<2, 1, 1>> /\ aff.bond_site = <<1, 1, 1>>

\* C19: variant 1, a bonded particle whose extension exceeds maxBond: the next
\* force evaluation resets the bond-site to (-1,-1,-1), whatever the random
\* numbers and wherever the partner is.
C19_RuptureAnywhere ==
    (aff # <<>> /\ aff.evals > 0 /\ aff.ia.type = 1 /\ aff.before # <<-1, -1, -1>>
       /\ aff.len2 > aff.ia.maxBond * aff.ia.maxBond) =>
        aff.bond_site = <<-1, -1, -1>>

\* What holds of the rupture of variant 1: for a bond-site without a negative
\* component and an extension above maxBond, an evaluation with 0 < dist < cut
\* resets the bond-site whatever the random numbers, and an evaluation with
\* dist >= cut or dist = 0 leaves the bond-site as it is.
RuptureInsideCutoff ==
    (aff # <<>> /\ aff.evals > 0 /\ aff.ia.type = 1 /\ AffBonded(aff.before)
       /\ aff.len2 > aff.ia.maxBond * aff.ia.maxBond) =>
        IF aff.d[1] # 0 /\ aff.d[1] * aff.d[1] < aff.ia.cut * aff.ia.cut
        THEN aff.bond_site = <<-1, -1, -1>> /\ aff.branch = "exists"
        ELSE aff.bond_site = aff.before /\ aff.branch = "outside"

\* C20: in every variant, in an evaluation inside the cutoff a particle is
\* treated as bonded (the bond-exists branch is taken) exactly when its
\* bond-site differs from (-1,-1,-1); so the evaluation after a creation cannot
\* create a second bond.
C20_BondedIffNotSentinel ==
    (aff # <<>> /\ aff.evals > 0 /\ aff.branch \notin {"off", "outside"}) =>
        /\ (aff.branch = "exists") <=> (aff.before # <<-1, -1, -1>>)
        /\ aff.branch = "created" => aff.before = <<-1, -1, -1>>

\* C28: in every variant, an evaluation with dist >= cut or dist = 0 leaves the
\* bond-site as it was and adds nothing to the force, whatever the extension of
\* an existing bond and whatever the random numbers; so does every evaluation
\* under a variant code whose last digit is not one of 1..6.
C28_InertOutsideCutoff ==
    (aff # <<>> /\ aff.evals > 0
       /\ (\/ aff.d[1] = 0
           \/ aff.d[1] * aff.d[1] >= aff.ia.cut * aff.ia.cut
           \/ aff.ia.type % 10 \notin 1..6)) =>
        /\ aff.bond_site = aff.before
        /\ aff.force = "none"

C28_Witness ==
    /\ aff # <<>> /\ aff.evals = 2 /\ aff.ia.type = 12
    /\ AffBonded(aff.before) /\ aff.len2 > aff.ia.cut * aff.ia.cut
    /\ aff.d[1] * aff.d[1] >= aff.ia.cut * aff.ia.cut /\ aff.poff
    /\ aff.bond_site = aff.before /\ aff.force = "none"

(***************************************************************************)
(* The quartic bond (bonded_interactions/quartic.hpp).  dx lies along x,    *)
(* so dist = |dx[0]| and force[0] = -fac * dx[0]; lengths are integers.     *)
(* An output is kept as <<kind, value>>: "old" (what the caller had in the  *)
(* buffer), "val" or "nan" (0/0 or inf * 0 at dist = 0).  The energy is     *)
(* kept in quarters: 4 * (k0/2 * dr^2 + k1/4 * dr^4).                       *)
(***************************************************************************)
MaxK == 1
MaxQuarticR == 2
MaxDist == 3

QuarticBrokenAtCutoff(ia, dist) == ia.r_cut > 0 /\ dist >= ia.r_cut

\* the early return of both functions
QuarticBroken(ia, dist) == ia.r_cut > 0 /\ dist > ia.r_cut

QuarticInit ==
    /\ CoreIdle /\ EarlyIdle
    /\ nptprop = <<>> /\ dpmesh = <<>> /\ farsum = <<>> /\ distr = <<>>
    /\ \E k0 \in 0..MaxK, k1 \in 0..MaxK, r \in 0..MaxQuarticR,
          r_cut \in -1..MaxQuarticR, dist \in 0..MaxDist :
        quartic = [ia |-> [k0 |-> k0, k1 |-> k1, r |-> r, r_cut |-> r_cut],
                   dist |-> dist, force |-> <<"old", 0>>, energy |-> <<"old", 0>>,
                   ret_force |-> -1, ret_energy |-> -1]

calc_quartic_pair_force ==
    /\ quartic # <<>>
    /\ quartic.ret_force = -1
    /\ LET ia == quartic.ia
           dist == quartic.dist
           dr == dist - ia.r
           num == ia.k0 * dr + ia.k1 * dr * dr * dr
       IN  IF QuarticBroken(ia, dist)
           THEN quartic' = [quartic EXCEPT !.ret_force = 1]
           ELSE quartic' = [quartic EXCEPT
                               !.force = IF dist = 0 THEN <<"nan", 0>>
                                         ELSE <<"val", -num>>,
                               !.ret_force = 0]
    /\ UNCHANGED <<layVars, runtime_errors, exVars, ghostVars, topoVars, cell_query,
                   intVars, extraVars, nptprop, dpmesh, farsum, distr>>

quartic_pair_energy ==
    /\ quartic # <<>>
    /\ quartic.ret_energy = -1
    /\ LET ia == quartic.ia
           dist == quartic.dist
           dr2 == (dist - ia.r) * (dist - ia.r)
       IN  IF QuarticBroken(ia, dist)
           THEN quartic' = [quartic EXCEPT !.ret_energy = 1]
           ELSE quartic' = [quartic EXCEPT
                               !.energy = <<"val", 2 * ia.k0 * dr2 + ia.k1 * dr2 * dr2>>,
                               !.ret_energy = 0]
    /\ UNCHANGED <<layVars, runtime_errors, exVars, ghostVars, topoVars, cell_query,
                   intVars, extraVars, nptprop, dpmesh, farsum, distr>>

QuarticNext == calc_quartic_pair_force \/ quartic_pair_energy

SpecQuartic == QuarticInit /\ [][QuarticNext]_vars

QuarticCalled == quartic # <<>> /\ quartic.ret_force # -1 /\ quartic.ret_energy # -1

\* C21: with r_cut > 0 both functions return 1 and write no force/energy for
\* every dist >= r_cut, dist = r_cut included, and return 0 for every
\* dist < r_cut; with r_cut <= 0 they never return 1.
C21_BrokenAtOrBeyondCutoff ==
    QuarticCalled =>
        LET broken == quartic.ia.r_cut > 0 /\ quartic.dist >= quartic.ia.r_cut
        IN  /\ quartic.ret_force = (IF broken THEN 1 ELSE 0)
            /\ quartic.ret_energy = (IF broken THEN 1 ELSE 0)
            /\ broken => quartic.force[1] = "old" /\ quartic.energy[1] = "old"

\* C21 as the code has it: with r_cut > 0 both functions return 1 and write
\* nothing exactly for dist > r_cut; at dist = r_cut, as for every smaller
\* dist and for every dist when r_cut <= 0, they return 0 and write the force
\* and the energy, -(k0*dr + k1*dr^3) along dx and k0/2*dr^2 + k1/4*dr^4.
C21_BrokenBeyondCutoff ==
    QuarticCalled =>
        LET ia == quartic.ia
            dr == quartic.dist - ia.r
            broken == ia.r_cut > 0 /\ quartic.dist > ia.r_cut
        IN  /\ quartic.ret_force = (IF broken THEN 1 ELSE 0)
            /\ quartic.ret_energy = (IF broken THEN 1 ELSE 0)
            /\ broken => quartic.force[1] = "old" /\ quartic.energy[1] = "old"
            /\ ~broken =>
                  /\ quartic.energy = <<"val", 2 * ia.k0 * dr * dr
                                                 + ia.k1 * dr * dr * dr * dr>>
                  /\ quartic.dist > 0 =>
                        quartic.force = <<"val", -(ia.k0 * dr + ia.k1 * dr * dr * dr)>>

C21_Witness ==
    /\ QuarticCalled
    /\ quartic.ia.r_cut = 2 /\ quartic.dist = 2 /\ quartic.ia.r = 1
    /\ quartic.ia.k0 = 1 /\ quartic.ia.k1 = 1
    /\ quartic.ret_force = 0 /\ quartic.force = <<"val", -2>>
    /\ quartic.ret_energy = 0 /\ quartic.energy = <<"val", 3>>

(***************************************************************************)
(* propagate_press_box_pos_and_rescale_npt (integrate.cpp), one call on     *)
(* one rank.  piston = 1 and time_step = 2, so that one half-step of the    *)
(* piston adds inv_piston * p_diff * 0.5 * time_step = p_diff.  Roots are   *)
(* kept exact: L_new = pow(volume, 1/dimension) is <<volume, dimension>>,   *)
(* and a factor (num/den)^(1/dimension) is <<num, den, dimension>>.         *)
(***************************************************************************)
MaxBoxEdge == 2
MaxPDiff == 5

Pow(b, e) == IF e = 1 THEN b ELSE IF e = 2 THEN b * b ELSE b * b * b

\* the factor is exactly 1
IsOne(s) == s[1] = s[2] /\ s[1] > 0

NptAxis == <<"x", "y", "z">>

\* "if (nptiso.volume < 0.0)"
NegativeVolume(v) == v < 0

NptPropInit ==
    /\ CoreIdle /\ EarlyIdle
    /\ quartic = <<>> /\ dpmesh = <<>> /\ farsum = <<>> /\ distr = <<>>
    /\ \E box_l \in [1..3 -> 1..MaxBoxEdge], xdir \in 0..1, ydir \in 0..1,
          zdir \in 0..1, cubic_box \in BOOLEAN, p_diff \in -MaxPDiff..MaxPDiff,
          fixed \in SUBSET (1..3), is_virtual \in BOOLEAN :
        LET g == NptGeometry(xdir, ydir, zdir)
        IN  nptprop = [box_l |-> box_l, geometry |-> g.geometry,
                       dimension |-> g.dimension,
                       non_const_dim |-> g.non_const_dim + 1,
                       cubic_box |-> cubic_box, piston |-> 1, inv_piston |-> 1,
                       time_step |-> 2, p_diff |-> p_diff,
                       \* integrate_ensemble_init
                       volume |-> Pow(box_l[g.non_const_dim + 1], g.dimension),
                       fixed |-> fixed, is_virtual |-> is_virtual,
                       coord |-> [j \in 1..3 |-> "none"],
                       scal |-> [k \in 0..2 |-> <<0, 0, 0>>],
                       L_new |-> <<0, 0>>, new_box |-> [i \in 1..3 |-> <<0, 0>>],
                       old_volume |-> 0, negative |-> FALSE, steps |-> 0]

propagate_press_box_pos_and_rescale_npt ==
    /\ nptprop # <<>>
    /\ nptprop.steps = 0
    /\ LET n == nptprop
           L == n.box_l[n.non_const_dim]
           half == (n.inv_piston * n.p_diff * n.time_step) \div 2
           v1 == n.volume + half
           v2 == v1 + half
           neg == NegativeVolume(v2)
           volume == IF neg THEN n.box_l[1] * n.box_l[2] * n.box_l[3] ELSE v2
           \* sqr(L) / pow(v1, 2/dimension), overwritten with 1 in the guard
           scal2 == IF neg THEN <<1, 1, n.dimension>>
                    ELSE <<Pow(L, n.dimension) * Pow(L, n.dimension), v1 * v1,
                           n.dimension>>
           L_new == <<volume, n.dimension>>
           scal1 == <<volume, Pow(L, n.dimension), n.dimension>>
           scal0 == <<Pow(L, n.dimension), volume, n.dimension>>
       IN  /\ nptprop' = [n EXCEPT
                 !.volume = volume, !.old_volume = n.volume, !.negative = v2 < 0,
                 !.scal = (0 :> scal0) @@ (1 :> scal1) @@ (2 :> scal2),
                 !.L_new = L_new,
                 !.coord = [j \in 1..3 |->
                               IF n.is_virtual \/ j \in n.fixed THEN "kept"
                               ELSE IF NptAxis[j] \in n.geometry THEN "rescaled"
                               ELSE "drift"],
                 !.new_box = [i \in 1..3 |->
                                 IF NptAxis[i] \in n.geometry \/ n.cubic_box
                                 THEN L_new ELSE <<n.box_l[i], 1>>],
                 !.steps = 1]
           /\ runtime_errors' =
                 [runtime_errors EXCEPT ![0] =
                     IF neg THEN @ \cup {"just caused the volume to become negative, decrease dt"}
                     ELSE @]
    /\ UNCHANGED <<layVars, exVars, ghostVars, topoVars, cell_query,
                   intVars, extraVars, quartic, dpmesh, farsum, distr>>

SpecNptProp == NptPropInit /\ [][propagate_press_box_pos_and_rescale_npt]_vars

\* the box length of axis i is what it was before the step
BoxAxisKept(i) ==
    nptprop.new_box[i][1] = Pow(nptprop.box_l[i], nptprop.new_box[i][2])

\* C22: whenever the two half-steps drive the volume below zero, a runtime
\* error is reported, the volume is reset to Lx*Ly*Lz, all three scale factors
\* of the step equal 1 and no box length is changed; the volume stored at the
\* end of a step is never negative.
C22_NegativeVolumeGuard ==
    (nptprop # <<>> /\ nptprop.steps = 1) =>
        /\ nptprop.volume >= 0
        /\ nptprop.negative =>
              /\ runtime_errors[0] # {}
              /\ nptprop.volume = nptprop.box_l[1] * nptprop.box_l[2] * nptprop.box_l[3]
              /\ \A k \in 0..2 : IsOne(nptprop.scal[k])
              /\ \A i \in 1..3 : BoxAxisKept(i)

\* What holds of the guard: the error is reported, the volume is reset to
\* Lx*Ly*Lz, scal[2] is 1 and the stored volume is never negative; scal[1],
\* scal[0] and the new box lengths are those of L_new = (Lx*Ly*Lz)^(1/dimension).
NegativeVolumeReset ==
    (nptprop # <<>> /\ nptprop.steps = 1) =>
        /\ nptprop.volume >= 0
        /\ nptprop.negative =>
              /\ runtime_errors[0] # {}
              /\ nptprop.volume = nptprop.box_l[1] * nptprop.box_l[2] * nptprop.box_l[3]
              /\ IsOne(nptprop.scal[2])
              /\ nptprop.L_new = <<nptprop.volume, nptprop.dimension>>
              /\ (nptprop.dimension = 3
                    /\ nptprop.box_l[1] = nptprop.box_l[2]
                    /\ nptprop.box_l[2] = nptprop.box_l[3])
                 => /\ \A k \in 0..2 : IsOne(nptprop.scal[k])
                    /\ \A i \in 1..3 : BoxAxisKept(i)

(***************************************************************************)
(* The skin in python_integrate (SpecIntegrate)                             *)
(***************************************************************************)
\* a step that is a call of python_integrate
PyCallStep == calls' = calls + 1 /\ caller' = "py"

\* C23: with the skin not set, a python_integrate call with max_cut <= 0
\* returns ES_ERROR without integrating, and one with max_cut > 0 derives the
\* skin as min(0.4*max_cut, min cell range - max_cut); the derivation happens
\* once, later calls do not derive the skin again.
C23_SkinDerivedOnce ==
    /\ (InPython /\ ~skin_set) =>
          IF max_cut <= 0
          THEN py.returned /\ py.ret = ES_ERROR /\ steps_begun = 0 /\ force_calcs = 0
          ELSE py.n_steps >= 0 => skin = Min(4 * max_cut, 10 * (min_cell_range - max_cut))
    /\ skin_derived <= 1

\* C23 as the code has it: the error case and the derived value are as
\* claimed, but the derivation leaves skin_set false and so happens in every
\* python_integrate call with a legal step count made while the skin is not
\* set; a call with the skin set, or one that returns an error before the
\* derivation, leaves the skin as it is.
C23_SkinDerivedEachCall ==
    /\ []((InPython /\ ~skin_set) =>
            IF max_cut <= 0
            THEN py.returned /\ py.ret = ES_ERROR /\ steps_begun = 0 /\ force_calcs = 0
            ELSE py.n_steps >= 0 =>
                    skin = Min(4 * max_cut, 10 * (min_cell_range - max_cut)))
    /\ [][/\ skin_set' = skin_set
          /\ PyCallStep =>
                IF ~skin_set /\ max_cut > 0 /\ py'.n_steps >= 0
                THEN /\ skin' = Min(4 * max_cut, 10 * (min_cell_range - max_cut))
                     /\ skin_derived' = skin_derived + 1
                ELSE skin' = skin /\ skin_derived' = skin_derived
          /\ ~PyCallStep => skin' = skin /\ skin_derived' = skin_derived]_vars

\* the second call has derived the skin a second time
C23_Witness ==
    /\ InPython /\ calls = 2 /\ ~skin_set /\ max_cut = 2
    /\ skin_derived = 2 /\ skin = 8
    /\ py.returned /\ py.ret = ES_OK /\ steps_begun > 0

(* minimize_energy entered, integrate_vv not yet returned to the script *)
InMinimize == caller = "min" /\ ipc # "idle"

(* C30: minimize_energy leaves integ_switch as it found it: the value before
   the call (NVT or NPT) is kept aside for the whole run and is the value
   of integ_switch at the return, whether the descent converged, used up
   max_steps, met a runtime error or was interrupted.  The run begins at most
   max_steps steepest-descent steps, and whenever it begins a step the forces
   have been calculated before the first one, whatever recalc_forces was. *)
C30_MinimizeRestoresSwitch ==
    /\ [](caller = "min" =>
            /\ steps_begun <= max_steps
            /\ InMinimize => integ_switch = "STEEPEST_DESCENT"
            /\ integ_switch_old \in {"NVT", "NPT_ISO"}
            /\ ipc = "idle" => integ_switch = integ_switch_old
            /\ ipc = "vv_mid" => force_calcs = steps_begun
            /\ steps_begun >= 1 => force_calcs >= 1)
    /\ [][/\ (ipc = "idle" /\ caller' = "min" /\ ipc' # "idle") =>
                (integ_switch_old' = integ_switch /\ integ_switch' = "STEEPEST_DESCENT")
          /\ (InMinimize /\ ipc' # "idle") =>
                (integ_switch_old' = integ_switch_old /\ integ_switch' = integ_switch)
          /\ (InMinimize /\ ipc' = "idle") => integ_switch' = integ_switch_old]_vars

(* a minimisation under NPT that a pending interrupt ended after its first step *)
C30_Witness ==
    /\ caller = "min" /\ ipc = "idle"
    /\ integ_switch = "NPT_ISO"
    /\ max_steps = MaxSteps
    /\ steps_begun = 1 /\ force_calcs = 2
    /\ set_py_interrupt
    /\ IntErrs = {}

(***************************************************************************)
(* The roles of a rank in the phases of the layered ghost plan (SpecGhost)  *)
(***************************************************************************)

\* the types of the steps that the pass even_odd of the loop of direction dir
\* ("down", "up") adds to the plan of rank r, in order
PhaseTypes(dir, even_odd, r) ==
    LET steps == IF dir = "down"
                 THEN DownPhase(<<>>, even_odd, r, data_parts, n_layers[r],
                                layered_flags[r], top[r], btm[r])
                 ELSE UpPhase(<<>>, even_odd, r, data_parts, n_layers[r],
                              layered_flags[r], top[r], btm[r])
    IN  [k \in 1..Len(steps) |-> steps[k].type]

\* the plan of rank r is its four phases in order
PlanIsPhases(r) ==
    [k \in 1..Len(comm[r]) |-> comm[r][k].type] =
        PhaseTypes("down", 0, r) \o PhaseTypes("down", 1, r)
            \o PhaseTypes("up", 0, r) \o PhaseTypes("up", 1, r)

\* C24: for more than one rank, in each of the two phases of each direction a
\* rank takes at most one role: it sends or it receives, never both, for
\* every rank count and z periodic or not.
C24_OneRolePerPhase ==
    n_nodes > 1 =>
        \A r \in Nodes : \A dir \in {"down", "up"} : \A even_odd \in 0..1 :
            /\ PlanIsPhases(r)
            /\ Len(PhaseTypes(dir, even_odd, r)) <= 1

\* C24 as the code has it: a rank takes at most one role per phase when the
\* rank count is even or z is not periodic.  For an odd rank count n > 1 with
\* periodic z two ranks take both roles in phase 0, the send before the
\* receive: rank n-1 in the downward transfer (it receives from rank 0) and
\* rank 0 in the upward transfer (it receives from rank n-1); every other
\* rank and phase has at most one role.
C24_OneRoleUnlessOddRing ==
    n_nodes > 1 =>
        \A r \in Nodes : \A dir \in {"down", "up"} : \A even_odd \in 0..1 :
            /\ PlanIsPhases(r)
            /\ IF n_nodes % 2 = 1 /\ periodic /\ even_odd = 0
                  /\ r = (IF dir = "down" THEN n_nodes - 1 ELSE 0)
               THEN PhaseTypes(dir, even_odd, r) = <<"SEND", "RECV">>
               ELSE Len(PhaseTypes(dir, even_odd, r)) <= 1

\* three ranks on a ring have run their plans; rank 2 sent down to rank 1 and
\* received from rank 0 in phase 0 of the downward transfer
C24_Witness ==
    /\ n_nodes = 3 /\ periodic /\ GhostAllDone
    /\ PhaseTypes("down", 0, 2) = <<"SEND", "RECV">>
    /\ comm[2][1].type = "SEND" /\ comm[2][1].node = 1
    /\ comm[2][2].type = "RECV" /\ comm[2][2].node = 0
    /\ g_sent[<<2, 1>>] > 0 /\ g_recv[<<2, 0>>] > 0

(***************************************************************************)
(* The ghost exchange of the dipolar mesh (p3m-dipolar): the margin         *)
(* exchange in dp3m_calc_send_mesh, dp3m_gather_fft_grid and                *)
(* dp3m_spread_force_grid on a periodic process grid.  Direction 2a is the  *)
(* lower and 2a+1 the upper neighbour along axis a.  MPI_Send and MPI_Recv  *)
(* block until the partner has made the matching call.  A block has a       *)
(* positive size exactly when its margin is positive: s_dim[d] is           *)
(* margin[d] and r_dim[d] is r_margin[d] along the axis of d.               *)
(***************************************************************************)
MaxGrid == 3
MaxRanks == 6

MeshRanks == 0..(dpmesh.grid[1] * dpmesh.grid[2] * dpmesh.grid[3] - 1)

\* calc_node_pos: the position of rank r on the process grid
node_pos(g, r) == <<r % g[1], (r \div g[1]) % g[2], r \div (g[1] * g[2])>>

\* calc_node_neighbors: the rank next to r in direction dir, on the ring
node_neighbors(g, r, dir) ==
    LET a == (dir \div 2) + 1
        p == node_pos(g, r)
        q == [p EXCEPT ![a] = (p[a] + (IF dir % 2 = 0 THEN g[a] - 1 ELSE 1)) % g[a]]
    IN  q[1] + g[1] * (q[2] + g[2] * q[3])

OppositeDir(dir) == IF dir % 2 = 0 THEN dir + 1 ELSE dir - 1

MeshStep(type, node, dir) == [type |-> type, node |-> node, dir |-> dir]

\* the two passes over evenodd with the send in the pass of the rank's own
\* parity and the receive in the same pass
MeshDirOwnParity(g, r, par, send, recv, sends, recvs) ==
    IF node_neighbors(g, r, send) = r THEN <<MeshStep("LOCL", r, send)>>
    ELSE (IF sends THEN <<MeshStep("SEND", node_neighbors(g, r, send), send)>> ELSE <<>>)
         \o (IF recvs THEN <<MeshStep("RECV", node_neighbors(g, r, recv), recv)>>
             ELSE <<>>)

\* the communication of one pass of the direction loop: the rank sends to its
\* neighbour in direction send and receives from the one in direction recv,
\* in the two passes over evenodd; par is node_pos along the axis
MeshDir(g, r, par, send, recv, sends, recvs) ==
    IF node_neighbors(g, r, send) = r THEN <<MeshStep("LOCL", r, send)>>
    ELSE LET s == IF sends THEN <<MeshStep("SEND", node_neighbors(g, r, send), send)>>
                  ELSE <<>>
             v == IF recvs THEN <<MeshStep("RECV", node_neighbors(g, r, recv), recv)>>
                  ELSE <<>>
         IN  IF par % 2 = 0 THEN s \o v ELSE v \o s

\* the steps of rank r in one of the three functions; margin and r_margin are
\* those of the local meshes
MeshPlan(op, g, r, margin, r_margin) ==
    LET Dir(s_dir) ==
            LET r_dir == OppositeDir(s_dir)
                par == node_pos(g, r)[(s_dir \div 2) + 1]
            IN  IF op = "send_mesh"
                THEN MeshDir(g, r, par, s_dir, r_dir, TRUE, TRUE)
                ELSE IF op = "gather"
                THEN MeshDir(g, r, par, s_dir, r_dir, margin[r][s_dir] > 0,
                             r_margin[r][r_dir] > 0)
                ELSE MeshDir(g, r, par, r_dir, s_dir, r_margin[r][r_dir] > 0,
                             margin[r][s_dir] > 0)
    IN  IF op = "spread"
        THEN Dir(5) \o Dir(4) \o Dir(3) \o Dir(2) \o Dir(1) \o Dir(0)
        ELSE Dir(0) \o Dir(1) \o Dir(2) \o Dir(3) \o Dir(4) \o Dir(5)

MeshInit ==
    /\ CoreIdle /\ EarlyIdle
    /\ quartic = <<>> /\ nptprop = <<>> /\ farsum = <<>> /\ distr = <<>>
    /\ \E g \in [1..3 -> 1..MaxGrid], op \in {"send_mesh", "gather", "spread"},
          zero \in {<<-1, -1>>} \cup ((0..5) \X (0..(MaxGrid - 1))) :
        /\ g[1] * g[2] * g[3] <= MaxRanks
        /\ zero[1] >= 0 => zero[2] < g[(zero[1] \div 2) + 1]
        /\ LET R == 0..(g[1] * g[2] * g[3] - 1)
               \* the margins of the local meshes: 1, or 0 in one direction at
               \* one position of the grid
               margin == [r \in R |-> [d \in 0..5 |->
                             IF zero[1] = d /\ node_pos(g, r)[(d \div 2) + 1] = zero[2]
                             THEN 0 ELSE 1]]
               \* r_margin as dp3m_calc_send_mesh leaves it; before it has
               \* run, nothing
               r_margin == [r \in R |-> [d \in 0..5 |->
                               IF op = "send_mesh" THEN -1
                               ELSE margin[node_neighbors(g, r, d)][OppositeDir(d)]]]
           IN  dpmesh = [grid |-> g, op |-> op, margin |-> margin,
                         r_margin |-> r_margin,
                         plan |-> [r \in R |-> MeshPlan(op, g, r, margin, r_margin)],
                         pc |-> [r \in R |-> 1],
                         sent |-> [r \in R |-> [d \in 0..5 |-> 0]],
                         from |-> [r \in R |-> [d \in 0..5 |-> <<>>]]]

MeshAt(r, type) ==
    /\ dpmesh.pc[r] <= Len(dpmesh.plan[r])
    /\ dpmesh.plan[r][dpmesh.pc[r]].type = type

\* an MPI_Send of rank s meets the MPI_Recv of rank d that names s
MeshTransfer(s, d) ==
    /\ dpmesh # <<>>
    /\ s # d
    /\ MeshAt(s, "SEND") /\ dpmesh.plan[s][dpmesh.pc[s]].node = d
    /\ MeshAt(d, "RECV") /\ dpmesh.plan[d][dpmesh.pc[d]].node = s
    /\ LET sd == dpmesh.plan[s][dpmesh.pc[s]].dir
           rd == dpmesh.plan[d][dpmesh.pc[d]].dir
       IN  dpmesh' = [dpmesh EXCEPT
                         !.pc[s] = @ + 1, !.pc[d] = @ + 1,
                         !.sent[s][sd] = @ + 1,
                         !.from[d][rd] = Append(@, <<s, sd>>),
                         !.r_margin[d][rd] = IF dpmesh.op = "send_mesh"
                                             THEN dpmesh.margin[s][sd] ELSE @]
    /\ UNCHANGED <<layVars, runtime_errors, exVars, ghostVars, topoVars, cell_query,
                   intVars, extraVars, quartic, nptprop, farsum, distr>>

\* one rank along the axis: the buffers are swapped, the margin is copied
MeshLocal(r) ==
    /\ dpmesh # <<>>
    /\ MeshAt(r, "LOCL")
    /\ LET sd == dpmesh.plan[r][dpmesh.pc[r]].dir
       IN  dpmesh' = [dpmesh EXCEPT
                         !.pc[r] = @ + 1,
                         !.r_margin[r][OppositeDir(sd)] =
                             IF dpmesh.op = "send_mesh" THEN dpmesh.margin[r][sd] ELSE @]
    /\ UNCHANGED <<layVars, runtime_errors, exVars, ghostVars, topoVars, cell_query,
                   intVars, extraVars, quartic, nptprop, farsum, distr>>

MeshNext ==
    \/ \E s \in MeshRanks : \E d \in MeshRanks : MeshTransfer(s, d)
    \/ \E r \in MeshRanks : MeshLocal(r)

SpecMesh == MeshInit /\ [][MeshNext]_vars

MeshAllDone == \A r \in MeshRanks : dpmesh.pc[r] > Len(dpmesh.plan[r])

\* the SEND steps of rank r in direction d
MeshSends(r, d) ==
    Cardinality({k \in 1..Len(dpmesh.plan[r]) :
                    dpmesh.plan[r][k].type = "SEND" /\ dpmesh.plan[r][k].dir = d})

\* C25: on every process grid, when all ranks run one of the three functions
\* with blocking send/receive, no rank is ever stuck (while some rank has not
\* finished, some call can return), so every rank completes all six
\* directions; and every send to the neighbour in a direction is matched by
\* exactly one receive from that rank in the opposite direction.
C25_MeshExchangeCompletes ==
    dpmesh # <<>> =>
        /\ ~MeshAllDone => ENABLED MeshNext
        /\ \A r \in MeshRanks : \A d \in 0..5 :
              /\ dpmesh.sent[r][d] <= MeshSends(r, d)
              /\ \A k \in 1..Len(dpmesh.from[r][d]) :
                    /\ dpmesh.from[r][d][k][1] = node_neighbors(dpmesh.grid, r, d)
                    /\ dpmesh.from[r][d][k][2] = OppositeDir(d)
        /\ MeshAllDone =>
              \A r \in MeshRanks : \A d \in 0..5 :
                  /\ dpmesh.sent[r][d] = MeshSends(r, d)
                  /\ MeshSends(r, d) <= 1
                  /\ Len(dpmesh.from[node_neighbors(dpmesh.grid, r, d)][OppositeDir(d)])
                        = MeshSends(r, d)
                  /\ dpmesh.op = "send_mesh" =>
                        dpmesh.r_margin[r][d] =
                            dpmesh.margin[node_neighbors(dpmesh.grid, r, d)][OppositeDir(d)]

\* a ring of three ranks along x (and two along y) has finished the gather
C25_Witness ==
    /\ dpmesh # <<>> /\ dpmesh.grid = <<3, 2, 1>> /\ dpmesh.op = "gather"
    /\ MeshAllDone
    /\ dpmesh.sent[0][0] = 1 /\ dpmesh.from[2][1] = <<<<0, 0>>>>
    /\ dpmesh.sent[2][0] = 1 /\ dpmesh.from[1][1] = <<<<2, 0>>>>

(***************************************************************************)
(* MMM2D_add_far (mmm2d): the order in which the (p,q) vectors are worked  *)
(* through.  ux, uy, far_cut and dR are integers in one unit of inverse     *)
(* length; self_energy is even, so that 0.5 * eng is an integer.  The       *)
(* contributions are kept as the sequence of <<p, q, shell>> in the order   *)
(* of the calls; the shells are numbered from 1, the clean-up loop has the  *)
(* number after the last shell.                                            *)
(***************************************************************************)
MaxU == 2
MaxFarCut == 3
MaxDR == 2

\* (int)ceil(a / b) for a >= 0, b > 0
CeilDiv(a, b) == (a + b - 1) \div b

\* MMM2D_setup_constants: n_scxcache, n_scycache
NScCache(far_cut, u) == CeilDiv(far_cut, u) + 1

\* "up to which q vector we have to work": undone[p] before the shells;
\* ceil(box_l[1] * sqrt(q2)) is the least k with (k * uy)^2 >= q2
FarUndone(c, p) ==
    IF p = 0 THEN c.n_scycache
    ELSE LET q2 == c.far_cut * c.far_cut - (c.ux * (p - 1)) * (c.ux * (p - 1))
             k == CHOOSE k \in 0..(c.far_cut + 1) :
                     /\ (k * c.uy) * (k * c.uy) >= q2
                     /\ k > 0 => ((k - 1) * c.uy) * ((k - 1) * c.uy) < q2
             q == IF q2 > 0 THEN 1 + k ELSE 1
         IN  IF q > c.n_scycache THEN c.n_scycache ELSE q

FarRadius2(c, p, q) == c.ux * c.ux * p * p + c.uy * c.uy * q * q

\* the loop over q for one p: down from q while the vector is outside the
\* radius R (R < 0: the clean-up loop, no test); the result is the q it
\* stopped at and the contributions so far
RECURSIVE FarQ(_, _, _, _, _, _)
FarQ(c, p, q, R, shell, sofar) ==
    IF q < 0 THEN <<q, sofar>>
    ELSE IF R >= 0 /\ FarRadius2(c, p, q) < R * R THEN <<q, sofar>>
    ELSE FarQ(c, p, q - 1, R, shell, Append(sofar, <<p, q, shell>>))

RECURSIVE FarPNoUndone(_, _, _, _, _, _)
FarPNoUndone(c, p, R, shell, undone, sofar) ==
    IF p < 0 THEN <<undone, sofar>>
    ELSE LET r == FarQ(c, p, undone[p], R, shell, sofar)
         IN  FarPNoUndone(c, p - 1, R, shell, undone, r[2])

\* the loop over p of one shell, with "undone[p] = q" after the loop over q
RECURSIVE FarP(_, _, _, _, _, _)
FarP(c, p, R, shell, undone, sofar) ==
    IF p < 0 THEN <<undone, sofar>>
    ELSE LET r == FarQ(c, p, undone[p], R, shell, sofar)
         IN  FarP(c, p - 1, R, shell, [undone EXCEPT ![p] = r[1]], r[2])

\* "for (R = far_cut; R > 0; R -= dR)"; the result has the number of the
\* next shell in front
RECURSIVE FarR(_, _, _, _, _)
FarR(c, R, shell, undone, sofar) ==
    IF R <= 0 THEN <<shell, undone, sofar>>
    ELSE LET r == FarP(c, c.n_scxcache, R, shell, undone, sofar)
         IN  FarR(c, R - c.dR, shell + 1, r[1], r[2])

FarInit ==
    /\ CoreIdle /\ EarlyIdle
    /\ quartic = <<>> /\ nptprop = <<>> /\ dpmesh = <<>> /\ distr = <<>>
    /\ \E ux \in 1..MaxU, uy \in 1..MaxU, far_cut \in 0..MaxFarCut, dR \in 1..MaxDR,
          f \in BOOLEAN, e \in BOOLEAN, self_energy \in {-2, 0} :
        farsum = [c |-> [ux |-> ux, uy |-> uy, far_cut |-> far_cut, dR |-> dR,
                         n_scxcache |-> NScCache(far_cut, ux),
                         n_scycache |-> NScCache(far_cut, uy)],
                  f |-> f, e |-> e, self_energy |-> self_energy,
                  called |-> FALSE, visits |-> <<>>, shells |-> 0,
                  force |-> <<>>, energy |-> <<>>, ret_self |-> 0]

MMM2D_add_far ==
    /\ farsum # <<>>
    /\ ~farsum.called
    /\ LET c == farsum.c
           eng == IF farsum.e THEN farsum.self_energy ELSE 0
           undone == [p \in 0..c.n_scxcache |-> FarUndone(c, p)]
           sh == FarR(c, c.far_cut, 1, undone, <<>>)
           \* clean up left overs
           all == FarP(c, c.n_scxcache, -1, sh[1], sh[2], sh[3])[2]
       IN  IF c.far_cut = 0
           THEN farsum' = [farsum EXCEPT !.called = TRUE, !.ret_self = eng \div 2]
           ELSE farsum' = [farsum EXCEPT
                              !.called = TRUE, !.visits = all, !.shells = sh[1] - 1,
                              !.force = IF farsum.f THEN all ELSE <<>>,
                              !.energy = IF farsum.e THEN all ELSE <<>>,
                              !.ret_self = eng \div 2]
    /\ UNCHANGED <<layVars, runtime_errors, exVars, ghostVars, topoVars, cell_query,
                   intVars, extraVars, quartic, nptprop, dpmesh, distr>>

SpecFar == FarInit /\ [][MMM2D_add_far]_vars

\* the visits of a call with far_cut > 0: every (p,q) within the initial
\* bounds exactly once, for fixed p in strictly decreasing q, the shells in
\* order, and no vector of an earlier shell inside one of a later shell
FarOrder ==
    LET c == farsum.c
        V == farsum.visits
        pairs == {<<p, q>> \in (0..c.n_scxcache) \X (0..c.n_scycache) :
                     q <= FarUndone(c, p)}
    IN  /\ {<<V[i][1], V[i][2]>> : i \in 1..Len(V)} = pairs
        /\ Len(V) = Cardinality(pairs)
        /\ \A i \in 1..Len(V) : \A j \in 1..Len(V) :
              i < j =>
                  /\ V[i][1] = V[j][1] => V[i][2] > V[j][2]
                  /\ V[i][3] <= V[j][3]
                  /\ (V[i][3] < V[j][3] /\ V[j][3] <= farsum.shells) =>
                        FarRadius2(c, V[i][1], V[i][2]) >= FarRadius2(c, V[j][1], V[j][2])

\* C26: in a call with far_cut > 0 every pair within the initial bounds is
\* processed exactly once, for fixed p in strictly decreasing q, and a pair of
\* an earlier shell never has a smaller radius than one of a later shell;
\* with far_cut = 0 no pair is processed and the result is half the
\* self-energy.
C26_FarOrderHalfSelfEnergy ==
    (farsum # <<>> /\ farsum.called) =>
        IF farsum.c.far_cut > 0 THEN FarOrder
        ELSE farsum.visits = <<>> /\ 2 * farsum.ret_self = farsum.self_energy

\* C26 as the code has it: the visiting order is as claimed; with
\* far_cut = 0 no pair is processed and the result is half the self-energy
\* when the energy is asked for (e), and 0 when it is not.
C26_FarOrderHalfSelfEnergyIfAsked ==
    (farsum # <<>> /\ farsum.called) =>
        /\ farsum.force = (IF farsum.f THEN farsum.visits ELSE <<>>)
        /\ farsum.energy = (IF farsum.e THEN farsum.visits ELSE <<>>)
        /\ IF farsum.c.far_cut > 0 THEN FarOrder
           ELSE /\ farsum.visits = <<>>
                /\ 2 * farsum.ret_self = (IF farsum.e THEN farsum.self_energy ELSE 0)

\* two shells and the clean-up loop have all processed vectors
C26_Witness ==
    /\ farsum # <<>> /\ farsum.called /\ farsum.c.far_cut = 3 /\ farsum.c.dR = 2
    /\ farsum.c.ux = 1 /\ farsum.c.uy = 1 /\ farsum.shells = 2
    /\ \E i, j, k \in 1..Len(farsum.visits) :
          /\ farsum.visits[i][3] = 1 /\ farsum.visits[j][3] = 2
          /\ farsum.visits[k][3] = 3
    /\ farsum.e /\ farsum.energy = farsum.visits

(***************************************************************************)
(* distribute (mmm2d): the layer sums passed up and down the chain of      *)
(* ranks.  Layer l (1..n_layers) of rank r has the number r*n_layers + l;  *)
(* a block is kept as the set of the layers whose lclcblk entries it sums  *)
(* (the weights fac are positive), with -1 for a block not yet filled in.  *)
(* MPI_Send and MPI_Recv block until the partner has made the matching     *)
(* call.                                                                   *)
(***************************************************************************)
MaxChain == 5
MaxNLayers == 2

DistrRanks == 0..(distr.n_nodes - 1)

DistrStep(type, node, dir) == [type |-> type, node |-> node, dir |-> dir]

\* every rank sends in the first pass of the loop and receives afterwards
DistrPassSendFirst(node, nn, r) ==
    IF node # 0 THEN <<>>
    ELSE <<DistrStep("CALC", r, "up")>>
         \o (IF r + 1 < nn THEN <<DistrStep("SEND", r + 1, "up")>> ELSE <<>>)
         \o (IF r > 0 THEN <<DistrStep("RECV", r - 1, "up")>> ELSE <<>>)
         \o <<DistrStep("CALC", r, "down")>>
         \o (IF r > 0 THEN <<DistrStep("SEND", r - 1, "down")>> ELSE <<>>)
         \o (IF r + 1 < nn THEN <<DistrStep("RECV", r + 1, "down")>> ELSE <<>>)

\* what rank r does in the pass of the loop over node: "up", then "down"
DistrPass(node, nn, r) ==
    LET inv_node == nn - node - 1
    IN  (IF node = r
         THEN <<DistrStep("CALC", r, "up")>>
              \o (IF node + 1 < nn THEN <<DistrStep("SEND", node + 1, "up")>> ELSE <<>>)
         ELSE IF node + 1 = r THEN <<DistrStep("RECV", node, "up")>>
         ELSE <<>>)
        \o (IF inv_node = r
            THEN <<DistrStep("CALC", r, "down")>>
                 \o (IF inv_node - 1 >= 0 THEN <<DistrStep("SEND", inv_node - 1, "down")>>
                     ELSE <<>>)
            ELSE IF inv_node - 1 = r THEN <<DistrStep("RECV", inv_node, "down")>>
            ELSE <<>>)

\* "for (node = 0; node < n_nodes; node++)"
RECURSIVE DistrLoop(_, _, _)
DistrLoop(node, nn, r) ==
    IF node >= nn THEN <<>> ELSE DistrPass(node, nn, r) \o DistrLoop(node + 1, nn, r)

DistrInit ==
    /\ CoreIdle /\ EarlyIdle
    /\ quartic = <<>> /\ nptprop = <<>> /\ dpmesh = <<>> /\ farsum = <<>>
    /\ \E nn \in 1..MaxChain, nl \in 1..MaxNLayers, e_size \in {1, 2, 4} :
        distr = [n_nodes |-> nn, n_layers |-> nl, e_size |-> e_size,
                 plan |-> [r \in 0..(nn - 1) |-> DistrLoop(0, nn, r)],
                 pc |-> [r \in 0..(nn - 1) |-> 1],
                 \* lclcblk: the layers of the rank and the two ghost layers
                 lcl |-> [r \in 0..(nn - 1) |-> [l \in 0..(nl + 1) |->
                             IF l \in 1..nl THEN {r * nl + l}
                             ELSE IF (r = 0 /\ l = 0) \/ (r = nn - 1 /\ l = nl + 1)
                             THEN {} ELSE {-1}]],
                 \* gblcblk: clear_image_contributions on the two end ranks
                 blw |-> [r \in 0..(nn - 1) |-> [c \in 0..(nl - 1) |->
                             IF r = 0 /\ c = 0 THEN {} ELSE {-1}]],
                 abv |-> [r \in 0..(nn - 1) |-> [c \in 0..(nl - 1) |->
                             IF r = nn - 1 /\ c = nl - 1 THEN {} ELSE {-1}]],
                 sent |-> [r \in 0..(nn - 1) |-> [d \in {"up", "down"} |-> 0]],
                 from |-> [r \in 0..(nn - 1) |-> [d \in {"up", "down"} |-> <<>>]],
                 early |-> FALSE]

DistrAt(r, type) ==
    /\ distr.pc[r] <= Len(distr.plan[r])
    /\ distr.plan[r][distr.pc[r]].type = type

\* blwentry(gblcblk, c) for c = 1 .. n_layers - 1, in this order
RECURSIVE SumBelow(_, _, _, _)
SumBelow(g, l, c, nl) ==
    IF c >= nl THEN g
    ELSE SumBelow([g EXCEPT ![c] = g[c - 1] \cup l[c - 1]], l, c + 1, nl)

\* abventry(gblcblk, c - 3) for c = n_layers + 1 .. 3, in this order
RECURSIVE SumAbove(_, _, _)
SumAbove(g, l, c) ==
    IF c <= 2 THEN g
    ELSE SumAbove([g EXCEPT ![c - 3] = g[c - 2] \cup l[c]], l, c - 1)

\* "calculate sums of cells below" / "of all cells above" on rank r
DistrCalc(r) ==
    /\ distr # <<>>
    /\ DistrAt(r, "CALC")
    /\ LET dir == distr.plan[r][distr.pc[r]].dir
           nl == distr.n_layers
       IN  distr' = [distr EXCEPT
                        !.pc[r] = @ + 1,
                        !.blw[r] = IF dir = "up" THEN SumBelow(@, distr.lcl[r], 1, nl)
                                   ELSE @,
                        !.abv[r] = IF dir = "down" THEN SumAbove(@, distr.lcl[r], nl + 1)
                                   ELSE @]
    /\ UNCHANGED <<layVars, runtime_errors, exVars, ghostVars, topoVars, cell_query,
                   intVars, extraVars, quartic, nptprop, dpmesh, farsum>>

\* the MPI_Send of rank s meets the MPI_Recv of rank d: sendbuf holds the
\* sum for the next rank and the nearest layer of s
DistrTransfer(s, d) ==
    /\ distr # <<>>
    /\ s # d
    /\ DistrAt(s, "SEND") /\ distr.plan[s][distr.pc[s]].node = d
    /\ DistrAt(d, "RECV") /\ distr.plan[d][distr.pc[d]].node = s
    /\ LET dir == distr.plan[s][distr.pc[s]].dir
           nl == distr.n_layers
           up == dir = "up"
           sum == IF up THEN distr.blw[s][nl - 1] \cup distr.lcl[s][nl - 1]
                  ELSE distr.abv[s][0] \cup distr.lcl[s][2]
           layer == IF up THEN distr.lcl[s][nl] ELSE distr.lcl[s][1]
       IN  distr' = [distr EXCEPT
                        !.pc[s] = @ + 1, !.pc[d] = @ + 1,
                        !.sent[s][dir] = @ + 1,
                        !.from[d][distr.plan[d][distr.pc[d]].dir] = Append(@, s),
                        !.blw[d][0] = IF up THEN sum ELSE @,
                        !.abv[d][nl - 1] = IF up THEN @ ELSE sum,
                        !.lcl[d][0] = IF up THEN layer ELSE @,
                        !.lcl[d][nl + 1] = IF up THEN @ ELSE layer,
                        \* a rank other than an end rank sends before it has
                        \* received from the other side
                        !.early = @ \/ (up /\ s > 0 /\ distr.from[s]["up"] = <<>>)
                                    \/ (~up /\ s < distr.n_nodes - 1
                                        /\ distr.from[s]["down"] = <<>>)]
    /\ UNCHANGED <<layVars, runtime_errors, exVars, ghostVars, topoVars, cell_query,
                   intVars, extraVars, quartic, nptprop, dpmesh, farsum>>

DistrNext ==
    \/ \E r \in DistrRanks : DistrCalc(r)
    \/ \E s \in DistrRanks : \E d \in DistrRanks : DistrTransfer(s, d)

SpecDistribute == DistrInit /\ [][DistrNext]_vars

DistrAllDone == \A r \in DistrRanks : distr.pc[r] > Len(distr.plan[r])

\* C27: for every rank count n >= 1 no rank is ever stuck in distribute, so
\* all ranks complete; every rank except the top one sends exactly one
\* message upward and every rank except the bottom one exactly one downward,
\* each received exactly once by the neighbour; a rank sends upward
\* (downward) only after it has received from the rank below (above); so
\* what rank k has received sums the layers of all ranks on that side.
C27_DistributeOnePass ==
    distr # <<>> =>
        LET nn == distr.n_nodes
            nl == distr.n_layers
        IN  /\ ~DistrAllDone => ENABLED DistrNext
            /\ ~distr.early
            /\ \A r \in DistrRanks :
                  /\ distr.sent[r]["up"] <= (IF r < nn - 1 THEN 1 ELSE 0)
                  /\ distr.sent[r]["down"] <= (IF r > 0 THEN 1 ELSE 0)
                  /\ distr.from[r]["up"] \in {<<>>, <<r - 1>>}
                  /\ distr.from[r]["down"] \in {<<>>, <<r + 1>>}
                  /\ distr.from[r]["up"] # <<>> =>
                        /\ distr.blw[r][0] = {k \in 1..(nn * nl) : k <= r * nl - 1}
                        /\ distr.lcl[r][0] = {r * nl}
                  /\ distr.from[r]["down"] # <<>> =>
                        /\ distr.abv[r][nl - 1] =
                              {k \in 1..(nn * nl) : k >= (r + 1) * nl + 2}
                        /\ distr.lcl[r][nl + 1] = {(r + 1) * nl + 1}
            /\ DistrAllDone =>
                  \A r \in DistrRanks :
                      /\ distr.sent[r]["up"] = (IF r < nn - 1 THEN 1 ELSE 0)
                      /\ distr.sent[r]["down"] = (IF r > 0 THEN 1 ELSE 0)
                      /\ distr.from[r]["up"] = (IF r > 0 THEN <<r - 1>> ELSE <<>>)
                      /\ distr.from[r]["down"] = (IF r < nn - 1 THEN <<r + 1>> ELSE <<>>)
                      /\ \A c \in 0..(nl - 1) :
                            /\ distr.blw[r][c] =
                                  {k \in 1..(nn * nl) : k <= r * nl + (c + 1) - 2}
                            /\ distr.abv[r][c] =
                                  {k \in 1..(nn * nl) : k >= r * nl + (c + 1) + 2}

\* four ranks have finished; rank 3 holds the sum of the layers of ranks 0..2
\* that are two or more below its first layer
C27_Witness ==
    /\ distr # <<>> /\ distr.n_nodes = 4 /\ distr.n_layers = 2 /\ DistrAllDone
    /\ distr.from[3]["up"] = <<2>> /\ distr.blw[3][0] = 1..5
    /\ distr.from[0]["down"] = <<1>> /\ distr.abv[0][1] = 4..8

====
